---- MODULE Spec2Model ----
(***************************************************************************)
(* The job-queue protocol of Open-Source-Hunter: the Copilot backend       *)
(* (enqueueJob, waitForResult, the searchOpenSourceProjects handler), the  *)
(* Hunter worker (workForever, handleJob, setJobStatus) and the Redis      *)
(* store they share (request list, per-job result lists, per-job status    *)
(* keys, key expiry).                                                      *)
(*                                                                         *)
(* Time is kept as count-downs in milliseconds; Tick lets Quantum ms pass. *)
(* An action is one store command (or one MULTI/EXEC batch) together with  *)
(* the local code that runs up to the next await.                          *)
(***************************************************************************)
EXTENDS Integers, Sequences, FiniteSets, TLC

\* ------------------------------------------------------------- bounds
\* How many different prompts clients post.
NPrompts == 7
\* How many ids the page's crypto.randomUUID() hands out.
MaxDrawn == 1
\* How many POST requests of the page may be on their way at once.
MaxFetches == 1
NCallers == 2
NWorkers == 2
MaxForeign == 1
MaxFaults == 2
Quantum == 500
JOB_TTL_SECONDS == 1
RESULT_TTL_SECONDS == 1
\* The longest wait the model measures, in ms; longer waits read as this.
MaxElapsed == 3000
\* How far Date.now() moves on in the clock scenario, in 1/Unit of a day.
MaxAge == 2
\* A number is kept as its count of 1/Unit, so that 2.5 is a number of the model.
Unit == 2

Callers == 1..NCallers
Workers == 1..NWorkers
\* randomUUID(): every handler call draws an id nobody else holds.
JobIds == 1..NCallers
\* Ids carried by requests that some other producer wrote to the list.
ForeignIds == (NCallers + 1)..(NCallers + MaxForeign)
AllIds == JobIds \cup ForeignIds
NoId == 0

\* SEARCH_TIMEOUT_MS is read from the environment; the deployments checked.
SearchTimeouts == {500, 1500}

\* A topic is a string, kept as the sequence of its characters; an absent
\* topic is the one-entry sequence Undefined, which is no string.
Blank == << >>
Undefined == <<"undefined">>
Topics == {<<"r">>}
\* What the model may pass as the handler's topic argument: nothing, the
\* empty string, white space, and a topic with white space around it.
TopicArgs == {Undefined, Blank, <<" ">>, <<" ", "r", " ">>}

\* String.prototype.trim without taking anything off.
trimNothing(t) == t

RECURSIVE trimStart(_)
trimStart(t) == IF t # << >> /\ Head(t) = " " THEN trimStart(Tail(t)) ELSE t

RECURSIVE trimEnd(_)
trimEnd(t) == IF t # << >> /\ t[Len(t)] = " " THEN trimEnd(SubSeq(t, 1, Len(t) - 1)) ELSE t

\* String.prototype.trim
trim(t) == trimEnd(trimStart(t))

Max(a, b) == IF a >= b THEN a ELSE b
Min(a, b) == IF a <= b THEN a ELSE b
\* Math.ceil(a / b) for a >= 0, b > 0
CeilDiv(a, b) == (a + b - 1) \div b
\* Math.floor of a number, as a whole count.
floor(n) == n \div Unit
\* Math.round of a number (halves go up), as a whole count.
round(n) == (2 * n + Unit) \div (2 * Unit)

\* ------------------------------------------------------------- state
VARIABLES
    now,           \* Date.now(), in days
    config,        \* the environment: SEARCH_TIMEOUT_MS, hasTavily, whether the
                   \* primary source answers every request successfully, what it
                   \* may answer (pools) and the limits callers may ask for
    requestQueue,  \* the list REQUEST_QUEUE
    jobMeta,       \* the keys JOB_METADATA_PREFIX:<id>: status and ms to live
    resultQueue,   \* the lists RESULT_PREFIX:<id>
    resultTtl,     \* ms to live of each result list (0: no such key, -1: no expiry)
    caller,        \* one handler invocation per caller
    worker,        \* one worker process each
    nextId,        \* the next id randomUUID() hands out
    faults,        \* store commands that may still be rejected
    foreign,       \* texts other producers may still write to the request list
    published,     \* per id: the envelopes ever pushed to its result list, in order
    handled,       \* per id: handleJob invocations that received it
    metaExpired,   \* per id: its status key was removed by expiry
    prompts,       \* the list PROMPT_HISTORY_KEY
    response,      \* the last POST to the prompt route: its body and the status sent
    state,         \* the page's AgentState: searches and activeJobId
    copilotResult, \* the page's copilotResult
    suggestions,   \* the page's sidebar suggestions
    fetches,       \* POST requests of the page on their way to the prompt route
    drawn,         \* how many ids the page's crypto.randomUUID() has handed out
    focused,       \* the focusStoredSearch call, if the page's last call was one: its
                   \* argument and whether it threw
    stored         \* the result the page stored last

\* The state of the prompt route.
route == <<prompts, response>>

\* The state of the dashboard page.
page == <<state, copilotResult, suggestions, fetches, drawn, focused, stored>>

vars == <<route, page, now, config, requestQueue, jobMeta, resultQueue, resultTtl, caller,
          worker, nextId, faults, foreign, published, handled, metaExpired>>

\* An argument of the handler as the caller passed it: a number, nothing, or
\* a text that is no number.
Num(n) == [kind |-> "number", n |-> n]
NoArg == [kind |-> "undefined", n |-> 0]
TextArg == [kind |-> "string", n |-> 0]
NaN == [kind |-> "NaN", n |-> 0]
\* A boolean argument.
Bool(b) == [kind |-> "boolean", n |-> IF b THEN 1 ELSE 0]
\* Boolean(value)
Boolean(value) ==
    CASE value.kind = "boolean" -> value.n = 1
      [] value.kind = "number" -> value.n # 0
      [] value.kind = "string" -> TRUE
      [] OTHER -> FALSE
\* The onlyMaintained arguments of the summary scenario: none, true and false.
MaintainedArgs == {NoArg, Bool(TRUE), Bool(FALSE)}

\* Number(value)
Number(value) == IF value.kind = "number" THEN value ELSE NaN
\* a > b on such values: false when either is NaN.
greater(a, b) == a.kind = "number" /\ b.kind = "number" /\ a.n > b.n

\* ------------------------------------------------------------- messages
\* process.env.HUNTER_DEFAULT_LIMIT ?? 6
DEFAULT_RESULT_LIMIT == 6
\* process.env.HUNTER_PROMPT_HISTORY_LIMIT ?? 6
PROMPT_HISTORY_LIMIT == 6
\* process.env.NEXT_PUBLIC_PROMPT_HISTORY_LIMIT ?? 5
PROMPT_SUGGESTION_LIMIT == 5
FAVORITES_FEED_ID == <<"favorites-feed">>
\* process.env.HUNTER_MAINTAINED_MONTH_WINDOW ?? 12
DEFAULT_ONLY_MAINTAINED_MONTHS == 12

\* The limit arguments a handler call carries in the pipeline scenario: none,
\* 1 and 3.
Limits == {NoArg, Num(Unit), Num(3 * Unit)}
\* The limit arguments of the argument scenario: also 0, -1, 0.5, 2.5, 15, 20
\* and a text.
LimitArgs ==
    Limits \cup {Num(0), Num(-Unit), Num(Unit \div 2), Num(2 * Unit + Unit \div 2),
                 Num(15 * Unit), Num(20 * Unit), TextArg}
\* The minStars arguments of the argument scenario: none, 10.5 and 50.
MinStarsArgs == {NoArg, Num(10 * Unit + Unit \div 2), Num(50 * Unit)}

\* Number(limit) > 0 ? Math.min(Number(limit), 15) : DEFAULT_RESULT_LIMIT
effectiveLimit(limit) ==
    IF greater(Number(limit), Num(0))
    THEN Min(Number(limit).n, 15 * Unit)
    ELSE DEFAULT_RESULT_LIMIT * Unit

\* typeof minStars === "number" ? minStars : undefined
effectiveMinStars(minStars) == IF minStars.kind = "number" THEN minStars ELSE NoArg

\* The payload of a request: topic, minStars (a number or nothing),
\* onlyMaintained and limit (a number).
FiltersOf(topic, minStars, onlyMaintained, limit) == [topic |-> topic, minStars |-> minStars, onlyMaintained |-> onlyMaintained, limit |-> limit]
\* The payload of a request that does not ask for maintained projects only.
Filters(topic, minStars, limit) == FiltersOf(topic, minStars, FALSE, limit)
\* A payload without topic (and without limit, which is never read then).
NoFilters == Filters(Undefined, NoArg, 0)

\* buildGitHubQuery asking for limit candidates, at most 50.
buildGitHubQueryNarrow(payload) ==
    [topic |-> payload.topic,
     quoted |-> \E i \in DOMAIN payload.topic : payload.topic[i] = " ",
     stars |-> IF payload.minStars.kind = "number" /\ payload.minStars.n > 0
               THEN <<floor(payload.minStars.n)>> ELSE << >>,
     pushed |-> IF payload.onlyMaintained THEN <<DEFAULT_ONLY_MAINTAINED_MONTHS>> ELSE << >>,
     sort |-> "stars",
     order |-> "desc",
     per_page |-> Min(payload.limit, 50 * Unit)]

\* buildGitHubQuery(payload) for a payload with a topic: whether the topic is
\* quoted, the stars qualifier when there is one, the months the pushed
\* qualifier goes back when there is one, sort, order and per_page.
buildGitHubQuery(payload) ==
    [topic |-> payload.topic,
     quoted |-> \E i \in DOMAIN payload.topic : payload.topic[i] = " ",
     stars |-> IF payload.minStars.kind = "number" /\ payload.minStars.n > 0
               THEN <<floor(payload.minStars.n)>> ELSE << >>,
     pushed |-> IF payload.onlyMaintained THEN <<DEFAULT_ONLY_MAINTAINED_MONTHS>> ELSE << >>,
     sort |-> "stars",
     order |-> "desc",
     per_page |-> Min(payload.limit * 2, 50 * Unit)]

\* JSON.stringify(request) as the worker will see it after JSON.parse:
\* json says whether the text parses at all.
RequestText(id, payload) ==
    [json |-> TRUE, id |-> id, hasPayload |-> TRUE, payload |-> payload]

NoRequest == [json |-> FALSE, id |-> NoId, hasPayload |-> FALSE, payload |-> NoFilters]

\* Protocol-violating texts on the request list.
MalformedRequests ==
    {NoRequest}
    \cup {[json |-> TRUE, id |-> NoId, hasPayload |-> TRUE, payload |-> Filters(t, NoArg, DEFAULT_RESULT_LIMIT * Unit)] :
             t \in Topics}
    \cup {[json |-> TRUE, id |-> i, hasPayload |-> FALSE, payload |-> NoFilters] : i \in ForeignIds}
    \cup {[json |-> TRUE, id |-> i, hasPayload |-> TRUE, payload |-> NoFilters] : i \in ForeignIds}

TimeoutMessage == "Search timed out before the worker responded. Please try again."
MalformedMessage == "Received malformed data from worker"
ValidationMessage == "A non-empty topic is required to search for projects."
StoreError == "store command rejected"
TypeErrorMessage == "Cannot read properties of undefined (reading 'includes')"
GitHubErrors == {"GitHub search failed"}

\* String.prototype.trim on the descriptions the model uses: the others have
\* no white space around them.
stringTrim(text) ==
    CASE text = " " -> ""
      [] text = " Null " -> "Null"
      [] OTHER -> text

\* String.prototype.toLowerCase on the descriptions the model uses: the
\* others have no capital letter.
toLowerCase(text) ==
    CASE text = "Null" -> "null"
      [] text = "UNDEFINED" -> "undefined"
      [] text = "No description, website, or topics provided." ->
             "no description, website, or topics provided."
      [] text = "Nothing" -> "nothing"
      [] OTHER -> text

\* String.prototype.startsWith("no description") on the lower-case
\* descriptions the model uses.
startsWithNoDescription(text) == text = "no description, website, or topics provided."

\* cleanDescription(raw), for a description that is a string.
cleanDescription(raw) == stringTrim(raw)

\* A date of a repository: null, or the time it names, in days.
Null == [kind |-> "null", n |-> 0]
IsoDate(t) == [kind |-> "string", n |-> t]
\* new Date(date).getTime()
getTime(date) == date.n

\* Date.now() when the processes start.
Today == 400 * Unit

\* A repository as the primary source returns it, with its stargazers_count,
\* description, pushed_at and updated_at; its other counts are 0.
\* A license of a repository: its spdx_id and its name, "" for a missing one.
License(spdx_id, name) == [spdx_id |-> spdx_id, name |-> name]
NoLicense == License("", "")

DatedRepo(stars, description, pushed_at, updated_at) == [stars |-> stars, description |-> description, pushed_at |-> pushed_at, updated_at |-> updated_at, forks |-> 0, license |-> NoLicense, language |-> ""]
\* The repository with these forks_count, license and language.
With(repo, forks, license, language) == [repo EXCEPT !.forks = forks, !.license = license, !.language = language]
\* A repository that carries no date.
Repo(stars, description) == DatedRepo(stars, description, Null, Null)

POSITIVE_INFINITY == 1000000
\* Number.isFinite, on day counts.
isFinite(n) == n # POSITIVE_INFINITY

\* describeFreshness with the upper bound of every bucket left out of it.
describeFreshnessExclusive(daysSinceUpdate) ==
    IF ~isFinite(daysSinceUpdate) THEN "unknown activity"
    ELSE IF daysSinceUpdate < 7 THEN "updated this week"
    ELSE IF daysSinceUpdate < 30 THEN "updated this month"
    ELSE IF daysSinceUpdate < 90 THEN "activity within the last quarter"
    ELSE IF daysSinceUpdate < 180 THEN "activity within the last six months"
    ELSE IF daysSinceUpdate < 365 THEN "activity within the last year"
    ELSE "no recent commits in the last year"

\* describeFreshness(daysSinceUpdate), on whole day counts.
describeFreshness(daysSinceUpdate) ==
    IF ~isFinite(daysSinceUpdate) THEN "unknown activity"
    ELSE IF daysSinceUpdate <= 7 THEN "updated this week"
    ELSE IF daysSinceUpdate <= 30 THEN "updated this month"
    ELSE IF daysSinceUpdate <= 90 THEN "activity within the last quarter"
    ELSE IF daysSinceUpdate <= 180 THEN "activity within the last six months"
    ELSE IF daysSinceUpdate <= 365 THEN "activity within the last year"
    ELSE "no recent commits in the last year"

\* repo.pushed_at ?? repo.updated_at
updatedAt(repo) == IF repo.pushed_at # Null THEN repo.pushed_at ELSE repo.updated_at

\* daysSinceUpdate of normalizeRepo: the days from updatedAt to Date.now(),
\* rounded, or infinity without a date.
daysSinceUpdate(repo) ==
    IF updatedAt(repo) # Null THEN round(now - getTime(updatedAt(repo)))
    ELSE POSITIVE_INFINITY

\* freshnessScore of normalizeRepo, in hundredths: max(0, 3 - days / 120).
freshnessScore(days) ==
    IF isFinite(days) THEN Max(0, 300 - (10 * days + 6) \div 12) ELSE 0

\* An entry of reasons: its text and, for "stars", the count it names.
Reason(text, n) == [text |-> text, n |-> n]

\* forkScore of normalizeRepo, in hundredths: 1.5 * log10(forks + 1), on the
\* fork counts the model uses.
forkScore(forks) ==
    CASE forks = 0 -> 0
      [] forks = 9 -> 150

\* The star part of Number(score.toFixed(2)) of normalizeRepo, in hundredths:
\* 2.5 * log10(stars + 1), on the star counts the model uses.
score(stars) ==
    CASE stars = 0 -> 0
      [] stars = 1 -> 75
      [] stars = 10 -> 260
      [] stars = 50 -> 427
      [] stars = 500 -> 675
      [] stars = 1000 -> 750

\* The reasons of normalizeRepo without filter(Boolean): the entries that do
\* not apply stay in the list, with a count of 0 or no identifier.
reasonsUnfiltered(repo) ==
    <<Reason("stars", repo.stars), Reason("forks", repo.forks),
      Reason(describeFreshness(daysSinceUpdate(repo)), 0),
      Reason("License: " \o repo.license.spdx_id, 0)>>

\* The reasons of normalizeRepo: stars and forks when not 0, the freshness,
\* the license when it has an spdx_id.
reasons(repo) ==
    (IF repo.stars # 0 THEN <<Reason("stars", repo.stars)>> ELSE << >>)
    \o (IF repo.forks # 0 THEN <<Reason("forks", repo.forks)>> ELSE << >>)
    \o <<Reason(describeFreshness(daysSinceUpdate(repo)), 0)>>
    \o (IF repo.license.spdx_id # ""
        THEN <<Reason("License: " \o repo.license.spdx_id, 0)>> ELSE << >>)

\* normalizeRepo(repo): reads Date.now().
normalizeRepo(repo) ==
    [stars |-> repo.stars,
     description |-> cleanDescription(repo.description),
     lastPushedAt |-> updatedAt(repo),
     daysSinceUpdate |-> daysSinceUpdate(repo),
     forks |-> repo.forks,
     language |-> repo.language,
     license |-> IF repo.license.spdx_id # "" THEN repo.license.spdx_id
                 ELSE repo.license.name,
     score |-> score(repo.stars) + forkScore(repo.forks)
               + freshnessScore(daysSinceUpdate(repo)),
     reasons |-> reasons(repo)]

\* A descending sort that puts a candidate before the earlier ones of its score.
RECURSIVE sortByScoreUnstable(_)
sortByScoreUnstable(s) ==
    IF s = << >> THEN << >>
    ELSE LET last == s[Len(s)]
             front == sortByScoreUnstable(SubSeq(s, 1, Len(s) - 1))
             k == Cardinality({i \in DOMAIN front : front[i].score > last.score})
         IN SubSeq(front, 1, k) \o <<last>> \o SubSeq(front, k + 1, Len(front))

\* Array.prototype.sort((a, b) => b.score - a.score): stable, descending.
RECURSIVE sortByScore(_)
sortByScore(s) ==
    IF s = << >> THEN << >>
    ELSE LET last == s[Len(s)]
             front == sortByScore(SubSeq(s, 1, Len(s) - 1))
             k == Cardinality({i \in DOMAIN front : front[i].score >= last.score})
         IN SubSeq(front, 1, k) \o <<last>> \o SubSeq(front, k + 1, Len(front))

\* Array.prototype.slice(0, n) that keeps everything.
sliceAll(s, n) == s

\* Array.prototype.slice(0, n) for a number n >= 0: n is cut to a whole count.
slice(s, n) == SubSeq(s, 1, Min(floor(n), Len(s)))

\* data.items of the answers the primary source gives in the protocol
\* scenarios: nothing, or one repository without description.
FetchedPools == {<< >>, <<Repo(0, "")>>}

\* Five repositories with stars 10, 500, 50, 1, 1000, two without description.
ExamplePool ==
    <<Repo(10, "a"), Repo(500, ""), Repo(50, "c"), Repo(1, ""), Repo(1000, "e")>>

\* The answers of the primary source in the pipeline scenario.
LargePools == {<< >>, <<Repo(10, ""), Repo(10, "b")>>, ExamplePool}

\* Day counts on both sides of every bound of describeFreshness.
BoundaryDays == <<0, 7, 8, 30, 31, 90, 91, 180, 181, 365, 366>>

\* Repositories pushed that many days before the processes start, one that
\* has only updated_at, and one without a date.
BoundaryPool ==
    [i \in DOMAIN BoundaryDays |->
        DatedRepo(10, "d", IsoDate(Today - BoundaryDays[i] * Unit), Null)]
    \o <<DatedRepo(10, "d", Null, IsoDate(Today - 7 * Unit)), Repo(10, "d")>>

\* The answers of the primary source in the freshness scenario.
FreshnessPools == {BoundaryPool, <<Repo(0, "")>>}

\* The answers of the primary source in the clock scenario: nothing, or one
\* repository pushed a week before the processes start.
DatedPools == {<< >>, <<DatedRepo(10, "", IsoDate(Today - 7 * Unit), Null)>>}

\* Repositories whose descriptions are white space, the words null and
\* undefined in some case, the source's "No description" text, and two
\* descriptions that say something.
DescriptionPool ==
    <<Repo(1000, " "), Repo(500, " Null "), Repo(50, "UNDEFINED"),
      Repo(10, "No description, website, or topics provided."), Repo(1, "Nothing"),
      Repo(0, "a")>>

\* The answers of the primary source in the description scenario.
DescriptionPools == {DescriptionPool, << >>}

\* Two TypeScript repositories of 10 stars, a Rust one of one star, and one
\* without stars, language or description.
SummaryPool ==
    <<With(Repo(10, "a"), 0, NoLicense, "TypeScript"),
      With(Repo(10, "b"), 0, NoLicense, "TypeScript"),
      With(Repo(1, "c"), 0, NoLicense, "Rust"),
      Repo(0, "")>>

\* The answers of the primary source in the summary scenario.
SummaryPools == {SummaryPool, << >>}

\* Repositories with and without stars, forks and license, one with a
\* license that has a name but no spdx_id, one dated and one without
\* description.
ReasonsPool ==
    <<With(Repo(10, "a"), 9, License("MIT", "MIT License"), "Go"),
      With(Repo(10, "b"), 0, License("", "Custom licence"), "Go"),
      With(Repo(0, "c"), 9, NoLicense, ""),
      With(Repo(1, ""), 0, License("Apache-2.0", "Apache License 2.0"), ""),
      With(DatedRepo(0, "e", IsoDate(Today - 7 * Unit), Null), 0, NoLicense, "")>>

\* The answers of the primary source in the reasons scenario.
ReasonsPools == {ReasonsPool, << >>}

\* What a request to the enrichment source comes to: a response that is not
\* ok, a network error, a body that does not parse, or a parsed body with its
\* answer and the content of its first result that has one ("" when missing).
TavilyOutcomes ==
    {[kind |-> k, answer |-> "", content |-> ""] :
        k \in {"not ok", "network error", "unparseable"}}
    \cup {[kind |-> "ok", answer |-> a, content |-> c] :
             a \in {"", "an answer"}, c \in {"", "a result"}}

NoLookup == [kind |-> "none", answer |-> "", content |-> ""]

\* [...new Set(languages)]: every language once, in the order of its first
\* occurrence.
RECURSIVE distinct(_)
distinct(s) ==
    IF s = << >> THEN << >>
    ELSE LET front == distinct(SubSeq(s, 1, Len(s) - 1)) IN
         IF \E i \in DOMAIN front : front[i] = s[Len(s)] THEN front
         ELSE Append(front, s[Len(s)])

\* The sentence of summarizeResult, as what it states: that nothing matched
\* the topic, or the number of projects, whether they are called actively
\* maintained, the languages and the highlights it lists.
Summary(topic, nothing, count, maintained, languages, highlights) == [topic |-> topic, nothing |-> nothing, count |-> count, maintained |-> maintained, languages |-> languages, highlights |-> highlights]
NoSummary == Summary(Undefined, FALSE, 0, FALSE, << >>, << >>)

\* summarizeResult({payload, projects, totalFetched})
summarizeResult(payload, projects) ==
    IF Len(projects) = 0
    THEN Summary(payload.topic, TRUE, 0, FALSE, << >>, << >>)
    ELSE LET languages == distinct(SelectSeq([i \in DOMAIN projects |-> projects[i].language],
                                             LAMBDA language : language # ""))
             firstReasons == [i \in DOMAIN projects |-> projects[i].reasons[1]]
             topReasons == slice(firstReasons, 3 * Unit)
         IN Summary(payload.topic, FALSE, Len(projects), payload.onlyMaintained,
                    languages, topReasons)

CompletedEnvelope(payload, projects, totalFetched) ==
    [status |-> "completed", error |-> "", filters |-> payload, projects |-> projects,
     totalFetched |-> totalFetched, summary |-> summarizeResult(payload, projects)]

ErrorEnvelope(payload, message) ==
    [status |-> "error", error |-> message, filters |-> payload, projects |-> << >>,
     totalFetched |-> 0, summary |-> NoSummary]

NoEnvelope ==
    [status |-> "none", error |-> "", filters |-> NoFilters, projects |-> << >>,
     totalFetched |-> 0, summary |-> NoSummary]

\* A status record: its status, its ms to live, and the topic when the writer
\* stored one with it.
NoMeta == [status |-> "none", ttl |-> 0, topic |-> Undefined]
Meta(status, seconds) == [status |-> status, ttl |-> seconds * 1000, topic |-> Undefined]
WithTopic(meta, topic) == [meta EXCEPT !.topic = topic]

IdleCaller ==
    [pc |-> "idle", topic |-> Undefined, limit |-> NoArg, jobId |-> NoId, payload |-> NoFilters,
     deadline |-> 0, block |-> 0, elapsed |-> 0, got |-> NoEnvelope, outcome |-> "none",
     message |-> ""]

IdleWorker(pc) ==
    [pc |-> pc, job |-> NoRequest, items |-> << >>, totalFetched |-> 0, projects |-> << >>,
     cursor |-> 0, error |-> "", backoff |-> 0, lookup |-> NoLookup, requests |-> << >>,
     lookups |-> << >>]

\* The prompts clients post: one-letter texts.
Letters == <<"a", "b", "c", "d", "e", "f", "g", "h">>
PromptTexts == {<<Letters[k]>> : k \in 1..NPrompts}

\* The prompt member of a request body: a string, nothing, or a number.
Text(text) == [kind |-> "string", text |-> text]
NoPrompt == [kind |-> "undefined", text |-> << >>]
NumberPrompt == [kind |-> "number", text |-> << >>]

\* A request body that parses as JSON, and one that does not.
Body(prompt) == [json |-> TRUE, prompt |-> prompt]
InvalidJson == [json |-> FALSE, prompt |-> NoPrompt]

\* The bodies clients send: no JSON, no prompt, a number, the empty string,
\* white space, the prompts, and a prompt with white space around it.
Bodies ==
    {InvalidJson, Body(NoPrompt), Body(NumberPrompt), Body(Text(Blank)), Body(Text(<<" ">>)),
     Body(Text(<<" ", "a", " ">>))}
    \cup {Body(Text(t)) : t \in PromptTexts}

\* No POST yet.
NoResponse == [status |-> 0, body |-> InvalidJson]

\* The suggestions the page starts with, by their messages.
FALLBACK_SUGGESTIONS ==
    <<[title |-> <<"Find maintained libraries">>, message |-> <<"Find actively maintained TypeScript libraries">>],
      [title |-> <<"Source Rust projects">>, message |-> <<"Identify promising Rust web frameworks">>],
      [title |-> <<"DevOps focus">>, message |-> <<"Recommend open-source observability stacks">>],
      [title |-> <<"Governance check">>, message |-> <<"Find Python ML repos">>]>>

\* The last call of the page was no focusStoredSearch.
NoFocus == [jobId |-> NoPrompt, thrown |-> FALSE]

\* A member that a result does not have.
NoMember == [kind |-> "undefined", text |-> << >>]

\* A result as the page is handed it, by its jobId and its filters' topic.
RawResult(jobId, topic) == [jobId |-> jobId, topic |-> topic]

\* A SearchResult of the page, by its jobId and its filters' topic; null is
\* the one without jobId.
SearchResult(jobId, topic) == [jobId |-> jobId, topic |-> topic]
NoResult == SearchResult(Undefined, Blank)

\* The results the page is handed: one without jobId (or that is no object),
\* one with the empty jobId, one whose jobId has white space around it, one
\* with a topic that has white space around it, one with a blank topic, and
\* two others.
Results ==
    {RawResult(NoMember, NoMember), RawResult(Text(Blank), NoMember),
     RawResult(Text(<<" ", "a", " ">>), NoMember),
     RawResult(Text(<<"a">>), Text(<<" ", "r", " ">>)),
     RawResult(Text(<<"b">>), Text(<<" ">>)), RawResult(Text(<<"c">>), NoMember),
     RawResult(Text(<<"d">>), NoMember)}

\* What is dropped on the dashboard: the JSON text of a result, or a text
\* that is no JSON.
Payloads == {[json |-> TRUE, result |-> r] : r \in Results} \cup {[json |-> FALSE, result |-> RawResult(NoMember, NoMember)]}

\* The jobId arguments of focusStoredSearch: white space, a jobId with white
\* space around it, a jobId that is never stored.
FocusArgs == {Text(<<" ">>), Text(<<" ", "a", " ">>), Text(<<"z">>)}

\* The state after the processes have started: which handler invocations and
\* worker processes there are, their environment, and what the surroundings
\* may still do (rejected store commands, texts from other producers).
InitAll(callers, workers, pcs, timeouts, tavily, sources, faultBudget, foreignBudget, limits, pools, minStars, maintained) ==
    /\ now = Today
    /\ config \in [SEARCH_TIMEOUT_MS : timeouts, hasTavily : tavily, sourcesOk : sources,
                   limits : {limits}, pools : {pools}, minStars : {minStars},
                   maintained : {maintained}]
    /\ requestQueue = << >>
    /\ jobMeta = [i \in AllIds |-> NoMeta]
    /\ resultQueue = [i \in AllIds |-> << >>]
    /\ resultTtl = [i \in AllIds |-> 0]
    /\ caller = [c \in callers |-> IdleCaller]
    /\ worker \in [workers -> {IdleWorker(pc) : pc \in pcs}]
    /\ nextId = 1
    /\ faults = faultBudget
    /\ foreign = foreignBudget
    /\ published = [i \in AllIds |-> << >>]
    /\ handled = [i \in AllIds |-> 0]
    /\ metaExpired = [i \in AllIds |-> FALSE]
    /\ prompts = << >>
    /\ response = NoResponse
    /\ state = [searches |-> << >>, activeJobId |-> Undefined]
    /\ copilotResult = NoResult
    /\ suggestions = FALLBACK_SUGGESTIONS
    /\ fetches = << >>
    /\ drawn = 0
    /\ focused = NoFocus
    /\ stored = NoResult

\* The scenarios whose callers say nothing about maintenance.
InitFull(callers, workers, pcs, timeouts, tavily, sources, faultBudget, foreignBudget, limits, pools, minStars) ==
    InitAll(callers, workers, pcs, timeouts, tavily, sources, faultBudget, foreignBudget,
            limits, pools, minStars, {NoArg})

\* The protocol scenarios: callers give no limit, the source answers with
\* nothing or with one repository.
InitWith(callers, workers, pcs, timeouts, tavily, sources, faultBudget, foreignBudget) ==
    InitFull(callers, workers, pcs, timeouts, tavily, sources, faultBudget, foreignBudget,
             {NoArg}, FetchedPools, {NoArg})

\* One handler invocation, one worker that runs or does not.
OneCaller == {1}
OneWorker == {1}
Init ==
    InitWith(OneCaller, OneWorker, {"down", "blpop"}, SearchTimeouts, BOOLEAN, BOOLEAN, 0, 0)

\* A store command is rejected (error reply, closed connection): no effect.
Rejected ==
    /\ faults > 0
    /\ faults' = faults - 1

Throw(c, message) ==
    caller' = [caller EXCEPT ![c] = [@ EXCEPT !.pc = "done", !.outcome = "thrown",
                                                !.message = message, !.deadline = 0, !.block = 0]]

\* ------------------------------------------------------------- prompt route
\* LREM key 0 value without effect.
lremNothing(list, count, value) == list

\* LREM key 0 value: every entry equal to value goes.
lrem(list, count, value) == SelectSeq(list, LAMBDA entry : entry # value)

\* LPUSH key value
lpush(list, value) == <<value>> \o list

\* LTRIM key start stop: the entries at the 0-based places start..stop stay;
\* a negative place counts from the end.
ltrim(list, start, stop) ==
    LET n == Len(list)
        first == IF start < 0 THEN Max(0, n + start) ELSE start
        last == IF stop < 0 THEN n + stop ELSE Min(stop, n - 1) IN
    IF first > last THEN << >> ELSE SubSeq(list, first + 1, last + 1)

\* POST of the prompt route: 400 for a body that is no JSON, 422 without a
\* prompt, and otherwise the MULTI/EXEC batch LREM, LPUSH, LTRIM and 200, or
\* 500 when the store rejects it.
POST(body) ==
    LET prompt == IF body.prompt.kind = "string" THEN trim(body.prompt.text) ELSE Blank IN
    IF ~body.json
    THEN /\ response' = [status |-> 400, body |-> body]
         /\ UNCHANGED <<prompts, faults>>
    ELSE IF prompt = Blank
    THEN /\ response' = [status |-> 422, body |-> body]
         /\ UNCHANGED <<prompts, faults>>
    ELSE \/ /\ prompts' = ltrim(lpush(lrem(prompts, 0, prompt), prompt), 0, PROMPT_HISTORY_LIMIT - 1)
            /\ response' = [status |-> 200, body |-> body]
            /\ UNCHANGED faults
         \/ /\ Rejected
            /\ response' = [status |-> 500, body |-> body]
            /\ UNCHANGED prompts

\* A client posts to the prompt route.
postPrompt ==
    /\ \E body \in Bodies : POST(body)
    /\ UNCHANGED <<page, now, config, requestQueue, jobMeta, resultQueue, resultTtl, caller,
                   worker, nextId, foreign, published, handled, metaExpired>>

\* ------------------------------------------------------------- dashboard
\* crypto.randomUUID(): the id after k earlier draws.
randomUUID(k) == <<Letters[k + 1], "-", "u", "u", "i", "d">>

\* normalizeFilters(filters).topic
normalizeFilters(result) == IF result.topic.kind = "string" THEN trim(result.topic.text) ELSE Blank

\* normalizeResult draws an id for this result.
drawsId(result) == result.jobId.kind # "string"

\* normalizeResult(result): jobId is String(data.jobId ?? crypto.randomUUID()).
normalizeResult(result) ==
    SearchResult(IF drawsId(result) THEN randomUUID(drawn) ELSE result.jobId.text,
                 normalizeFilters(result))

\* The setState updater of the three storing handlers without its filter.
storeResultWithoutFilter(normalized) ==
    [searches |-> slice(<<normalized>> \o state.searches, 6 * Unit),
     activeJobId |-> normalized.jobId]

\* The setState updater of the three storing handlers: the result goes to the
\* head, an entry with its jobId goes, the first six stay, the result is active.
storeResult(normalized) ==
    [searches |-> slice(<<normalized>> \o SelectSeq(state.searches, LAMBDA entry : entry.jobId # normalized.jobId), 6 * Unit),
     activeJobId |-> normalized.jobId]

\* The effect on [state.searches, copilotResult]: copilotResult follows the
\* latest search unless it already has its jobId.
syncCopilotResult(prev, searches) ==
    IF searches # << >>
    THEN IF prev.jobId = searches[1].jobId THEN prev ELSE searches[1]
    ELSE IF prev # NoResult /\ prev.jobId # FAVORITES_FEED_ID THEN NoResult ELSE prev

\* promptToSuggestion(prompt), for prompts of up to 40 characters.
promptToSuggestion(prompt) == [title |-> trim(prompt), message |-> trim(prompt)]

\* rememberPrompt(prompt): nothing for a blank prompt; otherwise the prompt
\* becomes the first suggestion and is posted to the prompt route.
rememberPrompt(prompt) ==
    LET trimmed == trim(prompt) IN
    IF trimmed = Blank
    THEN UNCHANGED <<suggestions, fetches>>
    ELSE /\ Len(fetches) < MaxFetches
         /\ suggestions' = slice(<<promptToSuggestion(trimmed)>> \o SelectSeq(suggestions, LAMBDA entry : entry.message # trimmed), PROMPT_SUGGESTION_LIMIT * Unit)
         /\ fetches' = Append(fetches, Body(Text(trimmed)))

\* What normalizeResult and the setState updater do in each storing handler.
stores(result) ==
    /\ drawsId(result) => drawn < MaxDrawn
    /\ drawn' = IF drawsId(result) THEN drawn + 1 ELSE drawn
    /\ state' = storeResult(normalizeResult(result))
    /\ stored' = normalizeResult(result)
    /\ focused' = NoFocus

\* storeSearchResult.handler
storeSearchResult ==
    /\ \E result \in Results :
          /\ stores(result)
          /\ copilotResult' = syncCopilotResult(copilotResult, state'.searches)
          /\ rememberPrompt(normalizeResult(result).topic)
    /\ UNCHANGED <<route, now, config, requestQueue, jobMeta, resultQueue, resultTtl, caller,
                   worker, nextId, faults, foreign, published, handled, metaExpired>>

\* renderOpenSourceResults.handler
renderOpenSourceResults ==
    /\ \E result \in Results :
          /\ stores(result)
          /\ copilotResult' = syncCopilotResult(normalizeResult(result), state'.searches)
    /\ UNCHANGED <<suggestions, fetches>>
    /\ UNCHANGED <<route, now, config, requestQueue, jobMeta, resultQueue, resultTtl, caller,
                   worker, nextId, faults, foreign, published, handled, metaExpired>>

\* handleDropResult(payload): a payload that is no JSON is logged and dropped.
handleDropResult ==
    /\ \E payload \in Payloads :
          IF payload.json
          THEN /\ stores(payload.result)
               /\ copilotResult' = syncCopilotResult(copilotResult, state'.searches)
          ELSE /\ focused' = NoFocus
               /\ UNCHANGED <<state, copilotResult, drawn, stored>>
    /\ UNCHANGED <<suggestions, fetches>>
    /\ UNCHANGED <<route, now, config, requestQueue, jobMeta, resultQueue, resultTtl, caller,
                   worker, nextId, faults, foreign, published, handled, metaExpired>>

\* The setState updater of setActiveSearch(jobId).
setActiveSearch(jobId) ==
    LET trimmed == trim(jobId)
        exists == \E i \in DOMAIN state.searches : state.searches[i].jobId = trimmed IN
    IF trimmed = Blank \/ ~exists \/ state.activeJobId = trimmed
    THEN state
    ELSE [state EXCEPT !.activeJobId = trimmed]

\* focusStoredSearch.handler: throws for a jobId that is no string, blank or
\* not among the stored searches.
focusStoredSearch ==
    /\ \E jobId \in FocusArgs :
          LET trimmed == IF jobId.kind = "string" THEN trim(jobId.text) ELSE Blank
              exists == \E i \in DOMAIN state.searches : state.searches[i].jobId = trimmed IN
          IF trimmed = Blank \/ ~exists
          THEN /\ focused' = [jobId |-> jobId, thrown |-> TRUE]
               /\ UNCHANGED state
          ELSE /\ focused' = [jobId |-> jobId, thrown |-> FALSE]
               /\ state' = setActiveSearch(trimmed)
    /\ UNCHANGED <<copilotResult, suggestions, fetches, drawn, stored>>
    /\ UNCHANGED <<route, now, config, requestQueue, jobMeta, resultQueue, resultTtl, caller,
                   worker, nextId, faults, foreign, published, handled, metaExpired>>

\* handleSelectSearch(jobId): a click on an entry of the history panel.
handleSelectSearch ==
    /\ \E i \in DOMAIN state.searches : state' = setActiveSearch(state.searches[i].jobId)
    /\ focused' = NoFocus
    /\ UNCHANGED <<copilotResult, suggestions, fetches, drawn, stored>>
    /\ UNCHANGED <<route, now, config, requestQueue, jobMeta, resultQueue, resultTtl, caller,
                   worker, nextId, faults, foreign, published, handled, metaExpired>>

\* A POST of the page reaches the prompt route.
deliverPrompt ==
    /\ fetches # << >>
    /\ POST(Head(fetches))
    /\ fetches' = Tail(fetches)
    /\ UNCHANGED <<state, copilotResult, suggestions, drawn, focused, stored>>
    /\ UNCHANGED <<now, config, requestQueue, jobMeta, resultQueue, resultTtl, caller,
                   worker, nextId, foreign, published, handled, metaExpired>>

\* ------------------------------------------------------------- backend
\* enqueueJob appending the request without the status write in its batch.
enqueueJobUnbatched(jobId, payload) ==
    /\ requestQueue' = Append(requestQueue, RequestText(jobId, payload))
    /\ UNCHANGED jobMeta

\* enqueueJob pushing the request to the head of the list (LPUSH in place of
\* RPUSH).
enqueueJobAtHead(jobId, payload) ==
    /\ jobMeta' = [jobMeta EXCEPT ![jobId] =
                      WithTopic(Meta("queued", JOB_TTL_SECONDS), payload.topic)]
    /\ requestQueue' = <<RequestText(jobId, payload)>> \o requestQueue

\* The MULTI/EXEC batch of enqueueJob: SET metaKey ... EX JOB_TTL_SECONDS and
\* RPUSH REQUEST_QUEUE, applied together.
enqueueJob(jobId, payload) ==
    /\ jobMeta' = [jobMeta EXCEPT ![jobId] =
                      WithTopic(Meta("queued", JOB_TTL_SECONDS), payload.topic)]
    /\ requestQueue' = Append(requestQueue, RequestText(jobId, payload))

\* The searchOpenSourceProjects handler up to its first wait: validation, then
\* enqueueJob, then waitForResult's entry (deadline = Date.now() + SEARCH_TIMEOUT_MS).
handler(c) ==
    /\ caller[c].pc = "idle"
    /\ \E topic \in TopicArgs, limit \in config.limits, minStars \in config.minStars, onlyMaintained \in config.maintained :
          LET trimmedTopic == IF topic = Undefined THEN Undefined ELSE trim(topic)
              payload == FiltersOf(trimmedTopic, effectiveMinStars(minStars),
                                   Boolean(onlyMaintained), effectiveLimit(limit))
              called == [caller EXCEPT ![c] = [@ EXCEPT !.topic = topic, !.limit = limit]] IN
          IF trimmedTopic = Undefined \/ trimmedTopic = Blank
          THEN /\ caller' = [called EXCEPT ![c] =
                      [@ EXCEPT !.pc = "done", !.outcome = "thrown",
                                !.message = ValidationMessage]]
               /\ UNCHANGED <<jobMeta, requestQueue, nextId, faults>>
          ELSE /\ nextId \in JobIds
               /\ nextId' = nextId + 1
               /\ \/ /\ enqueueJob(nextId, payload)
                     /\ caller' = [called EXCEPT ![c] =
                            [@ EXCEPT !.pc = "loop", !.jobId = nextId,
                                      !.payload = payload,
                                      !.deadline = config.SEARCH_TIMEOUT_MS]]
                     /\ UNCHANGED faults
                  \/ /\ Rejected
                     /\ caller' = [called EXCEPT ![c] =
                            [@ EXCEPT !.pc = "done", !.outcome = "thrown",
                                      !.message = StoreError]]
                     /\ UNCHANGED <<jobMeta, requestQueue>>
    /\ UNCHANGED <<route, page, now, config, resultQueue, resultTtl, worker, foreign, published, handled,
                   metaExpired>>

\* waitForResult: the while test and, when it passes, the BRPOP it issues with
\* remainingSeconds = Math.max(1, Math.ceil((deadline - Date.now()) / 1000)).
\* remainingSeconds rounded down and without its floor of 1.
remainingSecondsFloor(msLeft) == msLeft \div 1000

\* remainingSeconds with a second of slack added to the rounded-up time left.
remainingSecondsPadded(msLeft) == CeilDiv(msLeft, 1000) + 1

remainingSeconds(msLeft) == Max(1, CeilDiv(msLeft, 1000))

\* The time a BRPOP with this timeout stays blocked: the store takes 0 as
\* "no limit".
Forever == -1
BlockFor(seconds) == IF seconds = 0 THEN Forever ELSE seconds * 1000

\* waitForResult cancelling the job when it gives up: it takes the request off
\* the list and deletes the status key before it throws.
waitForResultCancelling(c) ==
    /\ caller[c].pc = "loop"
    /\ IF caller[c].deadline > 0
       THEN /\ caller' = [caller EXCEPT ![c] =
                   [@ EXCEPT !.pc = "brpop",
                             !.block = BlockFor(remainingSeconds(caller[c].deadline))]]
            /\ UNCHANGED <<requestQueue, jobMeta>>
       ELSE /\ Throw(c, TimeoutMessage)
            /\ requestQueue' = SelectSeq(requestQueue, LAMBDA raw : raw.id # caller[c].jobId)
            /\ jobMeta' = [jobMeta EXCEPT ![caller[c].jobId] = NoMeta]
    /\ UNCHANGED <<route, page, now, config, resultQueue, resultTtl, worker, nextId, faults, foreign, published,
                   handled, metaExpired>>

\* waitForResult issuing every BRPOP with the timeout of its first one.
waitForResultFixedTimeout(c) ==
    /\ caller[c].pc = "loop"
    /\ IF caller[c].deadline > 0
       THEN caller' = [caller EXCEPT ![c] =
                [@ EXCEPT !.pc = "brpop",
                          !.block = BlockFor(remainingSeconds(config.SEARCH_TIMEOUT_MS))]]
       ELSE Throw(c, TimeoutMessage)
    /\ UNCHANGED <<route, page, now, config, requestQueue, jobMeta, resultQueue, resultTtl, worker, nextId,
                   faults, foreign, published, handled, metaExpired>>

waitForResult(c) ==
    /\ caller[c].pc = "loop"
    /\ IF caller[c].deadline > 0
       THEN caller' = [caller EXCEPT ![c] =
                [@ EXCEPT !.pc = "brpop",
                          !.block = BlockFor(remainingSeconds(caller[c].deadline))]]
       ELSE Throw(c, TimeoutMessage)
    /\ UNCHANGED <<route, page, now, config, requestQueue, jobMeta, resultQueue, resultTtl, worker, nextId,
                   faults, foreign, published, handled, metaExpired>>

\* brpop on a result key that is not namespaced by the job id: it answers
\* with the tail of any result list that has an entry.
brpopAnyQueue(c) ==
    /\ caller[c].pc = "brpop"
    /\ \/ \E id \in JobIds :
             /\ resultQueue[id] # << >>
             /\ LET n == Len(resultQueue[id]) IN
                /\ resultQueue' = [resultQueue EXCEPT ![id] = SubSeq(@, 1, n - 1)]
                /\ resultTtl' = [resultTtl EXCEPT ![id] = IF n = 1 THEN 0 ELSE @]
                /\ caller' = [caller EXCEPT ![c] =
                       [@ EXCEPT !.pc = "del", !.got = resultQueue[id][n],
                                 !.deadline = 0, !.block = 0, !.elapsed = 0]]
             /\ UNCHANGED faults
       \/ /\ \A id \in JobIds : resultQueue[id] = << >>
          /\ caller[c].block = 0
          /\ caller' = [caller EXCEPT ![c] = [@ EXCEPT !.pc = "loop"]]
          /\ UNCHANGED <<resultQueue, resultTtl, faults>>
       \/ /\ Rejected
          /\ Throw(c, StoreError)
          /\ UNCHANGED <<resultQueue, resultTtl>>
    /\ UNCHANGED <<route, page, now, config, requestQueue, jobMeta, worker, nextId, foreign, published, handled,
                   metaExpired>>

\* BRPOP answers: the tail of the result list (the key goes with its last entry),
\* nothing once the timeout has run out, or an error.
brpop(c) ==
    LET id == caller[c].jobId IN
    /\ caller[c].pc = "brpop"
    /\ \/ /\ resultQueue[id] # << >>
          /\ LET n == Len(resultQueue[id]) IN
             /\ resultQueue' = [resultQueue EXCEPT ![id] = SubSeq(@, 1, n - 1)]
             /\ resultTtl' = [resultTtl EXCEPT ![id] = IF n = 1 THEN 0 ELSE @]
             /\ caller' = [caller EXCEPT ![c] =
                    [@ EXCEPT !.pc = "del", !.got = resultQueue[id][n],
                              !.deadline = 0, !.block = 0, !.elapsed = 0]]
          /\ UNCHANGED faults
       \/ /\ resultQueue[id] = << >>
          /\ caller[c].block = 0
          /\ caller' = [caller EXCEPT ![c] = [@ EXCEPT !.pc = "loop"]]
          /\ UNCHANGED <<resultQueue, resultTtl, faults>>
       \/ /\ Rejected
          /\ Throw(c, StoreError)
          /\ UNCHANGED <<resultQueue, resultTtl>>
    /\ UNCHANGED <<route, page, now, config, requestQueue, jobMeta, worker, nextId, foreign, published, handled,
                   metaExpired>>

\* redis.del(resultQueue); a rejection is caught by the try around it.
delResult(c) ==
    LET id == caller[c].jobId IN
    /\ caller[c].pc = "del"
    /\ \/ /\ resultQueue' = [resultQueue EXCEPT ![id] = << >>]
          /\ resultTtl' = [resultTtl EXCEPT ![id] = 0]
          /\ caller' = [caller EXCEPT ![c] = [@ EXCEPT !.pc = "set"]]
          /\ UNCHANGED faults
       \/ /\ Rejected
          /\ Throw(c, MalformedMessage)
          /\ UNCHANGED <<resultQueue, resultTtl>>
    /\ UNCHANGED <<route, page, now, config, requestQueue, jobMeta, worker, nextId, foreign, published, handled,
                   metaExpired>>

\* handlerResult without its test of result.status.
handlerResultUnchecked(c, result) ==
    caller' = [caller EXCEPT ![c] = [@ EXCEPT !.pc = "done", !.outcome = "returned"]]

\* What the handler does with the envelope waitForResult returned.
handlerResult(c, result) ==
    IF result.status = "error"
    THEN Throw(c, result.error)
    ELSE caller' = [caller EXCEPT ![c] = [@ EXCEPT !.pc = "done", !.outcome = "returned"]]

\* setFinalStatus writing "completed" whatever status the envelope carries.
setFinalStatusCompleted(c) ==
    LET id == caller[c].jobId IN
    /\ caller[c].pc = "set"
    /\ jobMeta' = [jobMeta EXCEPT ![id] = Meta("completed", JOB_TTL_SECONDS)]
    /\ handlerResult(c, caller[c].got)
    /\ UNCHANGED <<route, page, now, config, requestQueue, resultQueue, resultTtl, worker, nextId, faults,
                   foreign, published, handled, metaExpired>>

\* setFinalStatus writing the status without "EX": the key never expires.
setFinalStatusWithoutExpiry(c) ==
    LET id == caller[c].jobId IN
    /\ caller[c].pc = "set"
    /\ jobMeta' = [jobMeta EXCEPT ![id] =
                      [Meta(caller[c].got.status, JOB_TTL_SECONDS) EXCEPT !.ttl = Forever]]
    /\ handlerResult(c, caller[c].got)
    /\ UNCHANGED <<route, page, now, config, requestQueue, resultQueue, resultTtl, worker, nextId, faults,
                   foreign, published, handled, metaExpired>>

\* redis.set(metaKey, {status: parsed.status}, "EX", JOB_TTL_SECONDS), return parsed,
\* and the rest of the handler.
setFinalStatus(c) ==
    LET id == caller[c].jobId IN
    /\ caller[c].pc = "set"
    /\ \/ /\ jobMeta' = [jobMeta EXCEPT ![id] = Meta(caller[c].got.status, JOB_TTL_SECONDS)]
          /\ handlerResult(c, caller[c].got)
          /\ UNCHANGED faults
       \/ /\ Rejected
          /\ Throw(c, MalformedMessage)
          /\ UNCHANGED jobMeta
    /\ UNCHANGED <<route, page, now, config, requestQueue, resultQueue, resultTtl, worker, nextId, foreign,
                   published, handled, metaExpired>>

\* ------------------------------------------------------------- worker
\* JSON.parse(raw) succeeded and neither !job?.id nor !job?.payload holds.
accepted(raw) == raw.json /\ raw.id # NoId /\ raw.hasPayload

\* workForever without the try around its loop body: a failure ends the process.
loopErrorExit(w) ==
    worker' = [worker EXCEPT ![w] = IdleWorker("down")]

\* The catch of workForever's loop: log, then setTimeout(resolve, 1000).
loopError(w) ==
    worker' = [worker EXCEPT ![w] = [IdleWorker("backoff") EXCEPT !.backoff = 1000]]

\* blpop reading the head without removing it (LINDEX 0 in place of BLPOP).
blpopPeek(w) ==
    /\ worker[w].pc = "blpop"
    /\ requestQueue # << >>
    /\ LET raw == Head(requestQueue) IN
       IF accepted(raw)
       THEN /\ worker' = [worker EXCEPT ![w] = [@ EXCEPT !.pc = "status", !.job = raw]]
            /\ handled' = [handled EXCEPT ![raw.id] = Min(@ + 1, 2)]
            /\ UNCHANGED requestQueue
       ELSE /\ requestQueue' = Tail(requestQueue)
            /\ UNCHANGED <<worker, handled>>
    /\ UNCHANGED <<route, page, now, config, jobMeta, resultQueue, resultTtl, caller, nextId, faults, foreign,
                   published, metaExpired>>

\* blpop with nothing catching what a malformed text raises: the process exits.
blpopExitOnMalformed(w) ==
    /\ worker[w].pc = "blpop"
    /\ requestQueue # << >>
    /\ LET raw == Head(requestQueue) IN
       /\ requestQueue' = Tail(requestQueue)
       /\ IF accepted(raw)
          THEN /\ worker' = [worker EXCEPT ![w] = [@ EXCEPT !.pc = "status", !.job = raw]]
               /\ handled' = [handled EXCEPT ![raw.id] = Min(@ + 1, 2)]
          ELSE /\ worker' = [worker EXCEPT ![w] = IdleWorker("down")]
               /\ UNCHANGED handled
    /\ UNCHANGED <<route, page, now, config, jobMeta, resultQueue, resultTtl, caller, nextId, faults, foreign,
                   published, metaExpired>>

\* BLPOP REQUEST_QUEUE 0 answers with the head of the list; the worker parses
\* it, drops what it cannot parse or finds malformed, and otherwise enters handleJob.
blpop(w) ==
    /\ worker[w].pc = "blpop"
    /\ \/ /\ requestQueue # << >>
          /\ LET raw == Head(requestQueue) IN
             /\ requestQueue' = Tail(requestQueue)
             /\ IF accepted(raw)
                THEN /\ worker' = [worker EXCEPT ![w] = [@ EXCEPT !.pc = "status", !.job = raw]]
                     /\ handled' = [handled EXCEPT ![raw.id] = Min(@ + 1, 2)]
                ELSE UNCHANGED <<worker, handled>>
          /\ UNCHANGED faults
       \/ /\ Rejected
          /\ loopError(w)
          /\ UNCHANGED <<requestQueue, handled>>
    /\ UNCHANGED <<route, page, now, config, jobMeta, resultQueue, resultTtl, caller, nextId, foreign, published,
                   metaExpired>>

\* setJobStatus writing the key without "EX": it never expires.
setJobStatusWithoutExpiry(id, status, topic) ==
    jobMeta' = [jobMeta EXCEPT ![id] = [status |-> status, ttl |-> Forever, topic |-> topic]]

\* setJobStatus(id, status, extra): SET metaKey ... EX RESULT_TTL_SECONDS; the
\* extra the worker passes is the job's topic (and the start time).
setJobStatus(id, status, topic) ==
    jobMeta' = [jobMeta EXCEPT ![id] = WithTopic(Meta(status, RESULT_TTL_SECONDS), topic)]

\* handleJob going to fetchRepositories without the processing write before it.
handleJobStartWithoutStatus(w) ==
    /\ worker[w].pc = "status"
    /\ worker' = [worker EXCEPT ![w] = [@ EXCEPT !.pc = "fetch"]]
    /\ UNCHANGED <<route, page, now, config, requestQueue, jobMeta, resultQueue, resultTtl, caller, nextId,
                   faults, foreign, published, handled, metaExpired>>

\* handleJob's first await, outside its try: a rejection reaches the loop's catch.
handleJobStart(w) ==
    /\ worker[w].pc = "status"
    /\ \/ /\ setJobStatus(worker[w].job.id, "processing", worker[w].job.payload.topic)
          /\ worker' = [worker EXCEPT ![w] = [@ EXCEPT !.pc = "fetch"]]
          /\ UNCHANGED faults
       \/ /\ Rejected
          /\ loopError(w)
          /\ UNCHANGED jobMeta
    /\ UNCHANGED <<route, page, now, config, requestQueue, resultQueue, resultTtl, caller, nextId, foreign,
                   published, handled, metaExpired>>

\* needsDescription answering yes for every project.
needsDescriptionAlways(project) == TRUE

\* needsDescription(project), for a description that is a string.
needsDescription(project) ==
    LET value == toLowerCase(stringTrim(project.description)) IN
    \/ value = ""
    \/ value = "null"
    \/ value = "undefined"
    \/ startsWithNoDescription(value)

\* hasLookup without the test of hasTavily.
hasLookupWithoutCredential(projects) ==
    \E i \in DOMAIN projects : needsDescription(projects[i])

\* Whether the enrichment loop of handleJob has a lookup to make.
hasLookup(projects) ==
    config.hasTavily /\ \E i \in DOMAIN projects : needsDescription(projects[i])

\* nextLookup stopping at every project, whatever its description.
nextLookupEvery(projects, i) == IF i < Len(projects) THEN i + 1 ELSE 0

\* The next project after position i that the enrichment loop stops at, 0 when
\* the loop is through.
nextLookup(projects, i) ==
    IF \E k \in DOMAIN projects : k > i /\ needsDescription(projects[k])
    THEN CHOOSE k \in DOMAIN projects :
             /\ k > i /\ needsDescription(projects[k])
             /\ \A j \in (i + 1)..(k - 1) : ~needsDescription(projects[j])
    ELSE 0

Raise(w, message) ==
    worker' = [worker EXCEPT ![w] = [@ EXCEPT !.pc = "catch", !.error = message]]

\* fetchRepositories sending its request once more when the first one failed.
fetchRepositoriesRetrying(w) ==
    /\ worker[w].pc = "fetch"
    /\ \E message \in GitHubErrors :
          worker' = [worker EXCEPT ![w] =
              [@ EXCEPT !.pc = IF Len(worker[w].requests) = 0 THEN "fetch" ELSE "catch",
                        !.error = message,
                        !.requests = Append(@, buildGitHubQuery(worker[w].job.payload))]]
    /\ UNCHANGED <<route, page, now, config, requestQueue, jobMeta, resultQueue, resultTtl, caller, nextId,
                   faults, foreign, published, handled, metaExpired>>

\* fetchRepositories(payload) inside handleJob's try: buildGitHubQuery reads
\* topic.includes, the request fails or answers, the items are normalized,
\* sorted by score and cut to payload.limit.
fetchRepositories(w) ==
    /\ worker[w].pc = "fetch"
    /\ IF worker[w].job.payload.topic = Undefined
       THEN Raise(w, TypeErrorMessage)
       ELSE \/ /\ ~config.sourcesOk
               /\ \E message \in GitHubErrors :
                     worker' = [worker EXCEPT ![w] =
                         [@ EXCEPT !.pc = "catch", !.error = message,
                                   !.requests = Append(@, buildGitHubQuery(worker[w].job.payload))]]
            \/ \E items \in config.pools :
                  LET normalized == [i \in DOMAIN items |-> normalizeRepo(items[i])]
                      projects == slice(sortByScore(normalized), worker[w].job.payload.limit)
                  IN worker' = [worker EXCEPT ![w] =
                         [@ EXCEPT !.pc = IF hasLookup(projects) THEN "enrich" ELSE "publish",
                                   !.requests = Append(@, buildGitHubQuery(worker[w].job.payload)),
                                   !.items = items,
                                   !.totalFetched = Len(items),
                                   !.projects = projects,
                                   !.cursor = IF hasLookup(projects)
                                              THEN nextLookup(projects, 0) ELSE 0]]
    /\ UNCHANGED <<route, page, now, config, requestQueue, jobMeta, resultQueue, resultTtl, caller, nextId,
                   faults, foreign, published, handled, metaExpired>>

\* fetchDescriptionFromTavily(project, topic), given what the request came to:
\* the trimmed answer, else the trimmed content of a result, else null (""),
\* and null for everything its try catches.
fetchDescriptionFromTavily(lookup) ==
    IF lookup.kind # "ok" THEN ""
    ELSE IF lookup.answer # "" THEN lookup.answer
    ELSE lookup.content

\* The enrichment loop with nothing catching a failed lookup: it is raised to
\* handleJob's catch.
enrichRaising(w) ==
    /\ worker[w].pc = "enrich"
    /\ \E lookup \in TavilyOutcomes :
          IF lookup.kind # "ok"
          THEN worker' = [worker EXCEPT ![w] =
                   [@ EXCEPT !.pc = "catch", !.error = lookup.kind, !.lookup = lookup]]
          ELSE LET next == nextLookup(worker[w].projects, worker[w].cursor) IN
               worker' = [worker EXCEPT ![w] =
                   [@ EXCEPT !.pc = IF next # 0 THEN "enrich" ELSE "publish",
                             !.cursor = next, !.lookup = lookup]]
    /\ UNCHANGED <<route, page, now, config, requestQueue, jobMeta, resultQueue, resultTtl, caller, nextId,
                   faults, foreign, published, handled, metaExpired>>

\* The enrichment loop left after its first lookup, the others not awaited.
enrichFirstOnly(w) ==
    /\ worker[w].pc = "enrich"
    /\ LET projects == worker[w].projects
           i == worker[w].cursor
       IN \E lookup \in TavilyOutcomes :
             LET description == fetchDescriptionFromTavily(lookup) IN
             worker' = [worker EXCEPT ![w] =
                 [@ EXCEPT !.pc = "publish",
                           !.cursor = 0,
                           !.lookup = lookup,
                           !.lookups = Append(@, i),
                           !.projects = IF description # ""
                                        THEN [projects EXCEPT ![i].description = description]
                                        ELSE projects]]
    /\ UNCHANGED <<route, page, now, config, requestQueue, jobMeta, resultQueue, resultTtl, caller, nextId,
                   faults, foreign, published, handled, metaExpired>>

\* One pass of the enrichment loop of handleJob: fetchDescriptionFromTavily for
\* the project the loop is at; a description that is not empty replaces the
\* project's; then on to the next project that needs one, or out of the loop.
enrich(w) ==
    /\ worker[w].pc = "enrich"
    /\ LET projects == worker[w].projects
           i == worker[w].cursor
           next == nextLookup(projects, i)
       IN \E lookup \in TavilyOutcomes :
             LET description == fetchDescriptionFromTavily(lookup) IN
             worker' = [worker EXCEPT ![w] =
                 [@ EXCEPT !.pc = IF next # 0 THEN "enrich" ELSE "publish",
                           !.cursor = next,
                           !.lookup = lookup,
                           !.lookups = Append(@, i),
                           !.projects = IF description # ""
                                        THEN [projects EXCEPT ![i].description = description]
                                        ELSE projects]]
    /\ UNCHANGED <<route, page, now, config, requestQueue, jobMeta, resultQueue, resultTtl, caller, nextId,
                   faults, foreign, published, handled, metaExpired>>

\* publishBatch with the terminal status write left for later: only RPUSH and
\* EXPIRE take effect.
publishBatchWithoutStatus(id, envelope) ==
    /\ resultQueue' = [resultQueue EXCEPT ![id] = Append(@, envelope)]
    /\ resultTtl' = [resultTtl EXCEPT ![id] = RESULT_TTL_SECONDS * 1000]
    /\ published' = [published EXCEPT ![id] = Append(@, envelope)]
    /\ UNCHANGED jobMeta

\* The MULTI/EXEC batch that publishes an envelope: RPUSH resultKey, EXPIRE
\* resultKey RESULT_TTL_SECONDS, SET metaKey <terminal status> EX RESULT_TTL_SECONDS.
publishBatch(id, envelope) ==
    /\ resultQueue' = [resultQueue EXCEPT ![id] = Append(@, envelope)]
    /\ resultTtl' = [resultTtl EXCEPT ![id] = RESULT_TTL_SECONDS * 1000]
    /\ jobMeta' = [jobMeta EXCEPT ![id] = Meta(envelope.status, RESULT_TTL_SECONDS)]
    /\ published' = [published EXCEPT ![id] = Append(@, envelope)]

\* publishResult with the push sent on its own, before a status write that
\* is then rejected: the catch publishes a second envelope.
publishResultUnbatched(w) ==
    LET job == worker[w].job
        envelope == CompletedEnvelope(job.payload, worker[w].projects,
                                      worker[w].totalFetched) IN
    /\ worker[w].pc = "publish"
    /\ resultQueue' = [resultQueue EXCEPT ![job.id] = Append(@, envelope)]
    /\ resultTtl' = [resultTtl EXCEPT ![job.id] = RESULT_TTL_SECONDS * 1000]
    /\ published' = [published EXCEPT ![job.id] = Append(@, envelope)]
    /\ \/ /\ jobMeta' = [jobMeta EXCEPT ![job.id] = Meta("completed", RESULT_TTL_SECONDS)]
          /\ worker' = [worker EXCEPT ![w] = IdleWorker("blpop")]
          /\ UNCHANGED faults
       \/ /\ Rejected
          /\ Raise(w, StoreError)
          /\ UNCHANGED jobMeta
    /\ UNCHANGED <<route, page, now, config, requestQueue, caller, nextId, foreign, handled, metaExpired>>

\* The end of handleJob's try: summarize, build the result, publish it; a
\* rejected batch is caught like any other failure.
publishResult(w) ==
    LET job == worker[w].job IN
    /\ worker[w].pc = "publish"
    /\ \/ /\ publishBatch(job.id, CompletedEnvelope(job.payload, worker[w].projects,
                                                   worker[w].totalFetched))
          /\ worker' = [worker EXCEPT ![w] = IdleWorker("blpop")]
          /\ UNCHANGED faults
       \/ /\ Rejected
          /\ Raise(w, StoreError)
          /\ UNCHANGED <<resultQueue, resultTtl, jobMeta, published>>
    /\ UNCHANGED <<route, page, now, config, requestQueue, caller, nextId, foreign, handled, metaExpired>>

\* publishError pushing the envelope without the status write in its batch.
publishErrorUnbatched(w) ==
    LET job == worker[w].job
        envelope == ErrorEnvelope(job.payload, worker[w].error) IN
    /\ worker[w].pc = "catch"
    /\ resultQueue' = [resultQueue EXCEPT ![job.id] = Append(@, envelope)]
    /\ resultTtl' = [resultTtl EXCEPT ![job.id] = RESULT_TTL_SECONDS * 1000]
    /\ published' = [published EXCEPT ![job.id] = Append(@, envelope)]
    /\ worker' = [worker EXCEPT ![w] = IdleWorker("blpop")]
    /\ UNCHANGED <<route, page, now, config, requestQueue, jobMeta, caller, nextId, faults, foreign, handled,
                   metaExpired>>

\* handleJob's catch: publish the error envelope; a rejected batch leaves
\* handleJob and reaches the loop's catch.
publishError(w) ==
    LET job == worker[w].job IN
    /\ worker[w].pc = "catch"
    /\ \/ /\ publishBatch(job.id, ErrorEnvelope(job.payload, worker[w].error))
          /\ worker' = [worker EXCEPT ![w] = IdleWorker("blpop")]
          /\ UNCHANGED faults
       \/ /\ Rejected
          /\ loopError(w)
          /\ UNCHANGED <<resultQueue, resultTtl, jobMeta, published>>
    /\ UNCHANGED <<route, page, now, config, requestQueue, caller, nextId, foreign, handled, metaExpired>>

\* The backoff timer fired: back to the top of the while (true).
resume(w) ==
    /\ worker[w].pc = "backoff"
    /\ worker[w].backoff = 0
    /\ worker' = [worker EXCEPT ![w] = IdleWorker("blpop")]
    /\ UNCHANGED <<route, page, now, config, requestQueue, jobMeta, resultQueue, resultTtl, caller, nextId,
                   faults, foreign, published, handled, metaExpired>>

\* The worker process ends (a shutdown signal: redis.quit(), process.exit) at
\* whatever point of its loop it is, while another worker keeps running.
crash(w) ==
    /\ worker[w].pc # "down"
    /\ \E v \in DOMAIN worker : v # w /\ worker[v].pc # "down"
    /\ worker' = [worker EXCEPT ![w] = [@ EXCEPT !.pc = "down", !.backoff = 0]]
    /\ UNCHANGED <<route, page, now, config, requestQueue, jobMeta, resultQueue, resultTtl, caller, nextId,
                   faults, foreign, published, handled, metaExpired>>

\* ------------------------------------------------------------- environment
\* Another producer appends a protocol-violating text to the request list.
foreignPush ==
    /\ foreign > 0
    /\ foreign' = foreign - 1
    /\ \E raw \in MalformedRequests : requestQueue' = Append(requestQueue, raw)
    /\ UNCHANGED <<route, page, now, config, jobMeta, resultQueue, resultTtl, caller, worker, nextId, faults,
                   published, handled, metaExpired>>

Countdown(ms) == IF ms > 0 THEN Max(0, ms - Quantum) ELSE ms

\* Store commands are answered at once, and a blocked pop is served the moment
\* its list has an entry: the clock does not move while a process has such a
\* step to take. Only HTTP requests, blocked pops and timers let time pass.
UrgentCaller(c) ==
    \/ caller[c].pc \in {"loop", "del", "set"}
    \/ /\ caller[c].pc = "brpop"
       /\ caller[c].block = 0 \/ resultQueue[caller[c].jobId] # << >>

UrgentWorker(w) ==
    \/ worker[w].pc \in {"status", "publish", "catch"}
    \/ worker[w].pc = "blpop" /\ requestQueue # << >>
    \/ worker[w].pc = "backoff" /\ worker[w].backoff = 0

\* Quantum ms pass: keys whose time to live runs out are removed, timers run down.
Tick ==
    /\ \A c \in DOMAIN caller : ~UrgentCaller(c)
    /\ \A w \in DOMAIN worker : ~UrgentWorker(w)
    /\ jobMeta' = [i \in AllIds |->
          IF jobMeta[i].ttl > 0 /\ Countdown(jobMeta[i].ttl) = 0 THEN NoMeta
          ELSE [jobMeta[i] EXCEPT !.ttl = Countdown(@)]]
    /\ metaExpired' = [i \in AllIds |->
          metaExpired[i] \/ (jobMeta[i].ttl > 0 /\ Countdown(jobMeta[i].ttl) = 0)]
    /\ resultTtl' = [i \in AllIds |-> Countdown(resultTtl[i])]
    /\ resultQueue' = [i \in AllIds |->
          IF resultTtl[i] > 0 /\ Countdown(resultTtl[i]) = 0 THEN << >> ELSE resultQueue[i]]
    /\ caller' = [c \in DOMAIN caller |->
          IF caller[c].pc = "brpop"
          THEN [caller[c] EXCEPT !.deadline = Countdown(@), !.block = Countdown(@),
                                 !.elapsed = Min(@ + Quantum, MaxElapsed)]
          ELSE caller[c]]
    /\ worker' = [w \in DOMAIN worker |-> [worker[w] EXCEPT !.backoff = Countdown(@)]]
    /\ UNCHANGED <<route, page, now, config, requestQueue, nextId, faults, foreign, published, handled>>

\* Date.now() moves on by 1/Unit of a day.
dayPasses ==
    /\ now < Today + MaxAge
    /\ now' = now + 1
    /\ UNCHANGED <<route, page, config, requestQueue, jobMeta, resultQueue, resultTtl, caller, worker,
                   nextId, faults, foreign, published, handled, metaExpired>>

\* The store's timer of a blocked pop runs out before the caller's clock has
\* moved that far: the pop will answer with nothing.
earlyWake(c) ==
    /\ caller[c].pc = "brpop"
    /\ caller[c].block > 0
    /\ caller' = [caller EXCEPT ![c] = [@ EXCEPT !.block = 0]]
    /\ UNCHANGED <<route, page, now, config, requestQueue, jobMeta, resultQueue, resultTtl, worker, nextId,
                   faults, foreign, published, handled, metaExpired>>

BackendNext ==
    \/ \E c \in DOMAIN caller : handler(c)
    \/ \E c \in DOMAIN caller : waitForResult(c)
    \/ \E c \in DOMAIN caller : brpop(c)
    \/ \E c \in DOMAIN caller : delResult(c)
    \/ \E c \in DOMAIN caller : setFinalStatus(c)

WorkerNext ==
    \/ \E w \in DOMAIN worker : blpop(w)
    \/ \E w \in DOMAIN worker : handleJobStart(w)
    \/ \E w \in DOMAIN worker : fetchRepositories(w)
    \/ \E w \in DOMAIN worker : enrich(w)
    \/ \E w \in DOMAIN worker : publishResult(w)
    \/ \E w \in DOMAIN worker : publishError(w)

Next == BackendNext \/ WorkerNext \/ Tick

\* One caller, one worker, a store that answers every command.
Spec == Init /\ [][Next]_vars

\* Two callers and two running workers on a store that answers every command.
InitConcurrent ==
    InitWith(Callers, Workers, {"blpop"}, SearchTimeouts, BOOLEAN, {FALSE}, 0, 0)

SpecConcurrent == InitConcurrent /\ [][Next]_vars

\* Store commands may be rejected and the primary source may fail: two
\* callers, two running workers.
InitFaulty ==
    InitWith(Callers, Workers, {"blpop"}, {500}, {TRUE}, {FALSE}, MaxFaults, 0)

NextFaulty == Next \/ \E w \in DOMAIN worker : resume(w)

SpecFaulty == InitFaulty /\ [][NextFaulty]_vars

\* Other producers write to the request list: one caller, one running worker.
InitOpen ==
    InitWith(OneCaller, OneWorker, {"blpop"}, {1500}, {TRUE}, BOOLEAN, 0, MaxForeign)

NextOpen == Next \/ foreignPush

SpecOpen == InitOpen /\ [][NextOpen]_vars

\* The processes run and the clock moves: what the liveness claims rest on.
Fairness == WF_vars(Tick) /\ WF_vars(BackendNext) /\ WF_vars(WorkerNext)

FairSpec == Spec /\ Fairness

FairOpen == SpecOpen /\ Fairness

\* Two callers and one running worker: a job can wait on the request list
\* while the worker is busy with the other one.
InitBusy ==
    InitWith(Callers, OneWorker, {"blpop"}, {500}, BOOLEAN, {FALSE}, 0, 0)

SpecBusy == InitBusy /\ [][Next]_vars

FairBusy == SpecBusy /\ Fairness

\* Two callers and two workers, one of which may be shut down at any point.
InitCrash ==
    InitWith(Callers, Workers, {"blpop"}, {500}, {TRUE}, {FALSE}, 0, 0)

NextCrash == Next \/ \E w \in DOMAIN worker : crash(w)

SpecCrash == InitCrash /\ [][NextCrash]_vars

FairCrash == SpecCrash /\ Fairness

\* One caller and one running worker on a store that may reject commands.
InitFaultyOne ==
    InitWith(OneCaller, OneWorker, {"blpop"}, {500}, {TRUE}, {FALSE}, MaxFaults, 0)

SpecFaultyOne == InitFaultyOne /\ [][NextFaulty]_vars

\* The backoff timer of a worker fires like any other timer.
FairFaultyOne ==
    SpecFaultyOne /\ Fairness /\ WF_vars(\E w \in DOMAIN worker : resume(w))

\* The pipeline scenario: one caller that may ask for a limit, one running
\* worker, a primary source with larger answers.
InitPipeline ==
    InitFull(OneCaller, OneWorker, {"blpop"}, {1500}, BOOLEAN, BOOLEAN, 0, 0,
             Limits, LargePools, {NoArg})

SpecPipeline == InitPipeline /\ [][Next]_vars

\* One caller and one worker, with blocked pops that may answer early.
NextWake == Next \/ \E c \in DOMAIN caller : earlyWake(c)

SpecWake == Init /\ [][NextWake]_vars

\* The description scenario: the pipeline scenario with a source whose
\* repositories come with every kind of description.
InitDescription ==
    InitFull(OneCaller, OneWorker, {"blpop"}, {1500}, BOOLEAN, BOOLEAN, 0, 0,
             {NoArg}, DescriptionPools, {NoArg})

SpecDescription == InitDescription /\ [][Next]_vars

\* The summary scenario: the pipeline scenario with a caller that may ask
\* for maintained projects only and a source whose repositories have
\* languages.
InitSummary ==
    InitAll(OneCaller, OneWorker, {"blpop"}, {1500}, BOOLEAN, BOOLEAN, 0, 0,
            {NoArg, Num(Unit)}, SummaryPools, {NoArg}, MaintainedArgs)

SpecSummary == InitSummary /\ [][Next]_vars

\* The reasons scenario: the pipeline scenario with a source whose
\* repositories have forks and licenses.
InitReasons ==
    InitFull(OneCaller, OneWorker, {"blpop"}, {1500}, BOOLEAN, BOOLEAN, 0, 0,
             {NoArg, Num(3 * Unit)}, ReasonsPools, {NoArg})

SpecReasons == InitReasons /\ [][Next]_vars

\* Two callers that may ask for different limits, and two running workers.
InitTwoJobs ==
    InitFull(Callers, Workers, {"blpop"}, {1500}, BOOLEAN, {FALSE}, 0, 0,
             {NoArg, Num(Unit)}, FetchedPools, {NoArg})

SpecTwoJobs == InitTwoJobs /\ [][Next]_vars

\* Two callers served by one running worker or by two.
InitFifo ==
    \/ InitWith(Callers, OneWorker, {"blpop"}, {500}, {TRUE}, {FALSE}, 0, 0)
    \/ InitWith(Callers, Workers, {"blpop"}, {500}, {TRUE}, {FALSE}, 0, 0)

SpecFifo == InitFifo /\ [][Next]_vars

\* The prompt route on its own: clients post, the store answers every command.
InitPrompts ==
    InitWith(OneCaller, OneWorker, {"down"}, {500}, {FALSE}, {TRUE}, 0, 0)

NextPrompts == postPrompt

SpecPrompts == InitPrompts /\ [][NextPrompts]_vars

\* The dashboard page and the prompt route it posts to.
InitDashboard ==
    InitWith(OneCaller, OneWorker, {"down"}, {500}, {FALSE}, {TRUE}, 0, 0)

NextDashboard == storeSearchResult \/ renderOpenSourceResults \/ handleDropResult \/ focusStoredSearch \/ handleSelectSearch \/ deliverPrompt

SpecDashboard == InitDashboard /\ [][NextDashboard]_vars

\* The freshness scenario: the pipeline scenario with a source that returns
\* repositories of every age.
InitFreshness ==
    InitFull(OneCaller, OneWorker, {"blpop"}, {1500}, BOOLEAN, BOOLEAN, 0, 0,
             {NoArg, Num(15 * Unit)}, FreshnessPools, {NoArg})

SpecFreshness == InitFreshness /\ [][Next]_vars

\* The clock scenario: two callers, one worker, and a clock that moves on
\* while they run.
InitClock ==
    InitFull(Callers, OneWorker, {"blpop"}, {500}, BOOLEAN, BOOLEAN, 0, 0,
             {NoArg}, DatedPools, {NoArg})

NextClock == Next \/ dayPasses

SpecClock == InitClock /\ [][NextClock]_vars

\* The argument scenario: the pipeline scenario with a caller that may pass
\* any number, or no number, as limit and as minStars.
InitArgs ==
    InitFull(OneCaller, OneWorker, {"blpop"}, {1500}, BOOLEAN, BOOLEAN, 0, 0,
             LimitArgs, LargePools, MinStarsArgs)

SpecArgs == InitArgs /\ [][Next]_vars

\* ------------------------------------------------------------- vocabulary
InQueue(id) == \E i \in DOMAIN requestQueue : requestQueue[i].id = id

\* How often the request list holds a text with this id.
Copies(id) == Cardinality({i \in DOMAIN requestQueue : requestQueue[i].id = id})

\* Worker w is inside handleJob for job id.
Holding(w, id) ==
    /\ worker[w].pc \in {"status", "fetch", "enrich", "publish", "catch"}
    /\ worker[w].job.id = id

\* Some handler invocation has enqueued job id.
Enqueued(id) == \E c \in DOMAIN caller : caller[c].jobId = id

\* The filters the handler passed to enqueueJob for job id.
Submitted(id) == caller[CHOOSE c \in DOMAIN caller : caller[c].jobId = id].payload

\* ------------------------------------------------------------- claims
\* An envelope as handleJob builds it for a job with these filters.
WholeEnvelope(envelope, payload) ==
    /\ envelope.filters = payload
    /\ \/ envelope.status = "completed" /\ envelope.error = ""
       \/ envelope.status = "error" /\ envelope.error # "" /\ envelope.projects = << >>

\* C1: for every job id at most one result envelope is ever pushed to its
\* result list, whatever callers and workers interleave and whichever store
\* commands are rejected; it is a whole envelope (terminal status, the job's
\* filters), and once it is pushed no worker is still inside handleJob for
\* that job.
C1_AtMostOneEnvelope ==
    \A id \in JobIds :
        /\ Len(published[id]) <= 1
        /\ Len(resultQueue[id]) <= 1
        /\ published[id] # << >> =>
              /\ Enqueued(id)
              /\ WholeEnvelope(published[id][1], Submitted(id))
              /\ \A w \in DOMAIN worker : ~Holding(w, id)

\* A job whose success batch was rejected and whose catch then published.
C1_Witness ==
    \E id \in JobIds :
        /\ Len(published[id]) = 1
        /\ published[id][1].error = StoreError
        /\ \E w \in DOMAIN worker : worker[w].pc = "blpop"

\* C2: with several workers blocked on the request list, every enqueued
\* envelope is either still on the list, once, or has been handed to exactly
\* one handleJob invocation; no two workers are inside handleJob for the
\* same job.
C2_DeliveredToOneWorker ==
    \A id \in JobIds :
        /\ Enqueued(id) => Copies(id) + handled[id] = 1
        /\ ~Enqueued(id) => Copies(id) + handled[id] = 0
        /\ \A w1, w2 \in DOMAIN worker : Holding(w1, id) /\ Holding(w2, id) => w1 = w2

\* Both workers inside handleJob at once, each for its own job.
C2_Witness ==
    \E w1, w2 \in DOMAIN worker :
        /\ w1 # w2
        /\ Holding(w1, 1) /\ Holding(w2, 2)
        /\ handled[1] = 1 /\ handled[2] = 1

\* C3 as stated: in every reachable state, key expiry included, every
\* envelope on the request list has a status record under its job id.
C3_QueuedHasStatus ==
    \A i \in DOMAIN requestQueue :
        requestQueue[i].id \in JobIds => jobMeta[requestQueue[i].id].status # "none"

\* C3 as amended: every envelope on the request list has the status record
\* "queued" under its job id until that record's time to live has run out:
\* the record is missing only after its key expired, and enqueueJob never
\* leaves an envelope on the list without having written the record.
C3_QueuedHasStatusUntilExpiry ==
    \A i \in DOMAIN requestQueue :
        LET id == requestQueue[i].id IN
        id \in JobIds =>
            \/ jobMeta[id].status = "queued" /\ jobMeta[id].ttl > 0 /\ ~metaExpired[id]
            \/ jobMeta[id].status = "none" /\ metaExpired[id]

\* An envelope waits on the list while its status record is part-way to expiry.
C3_Witness ==
    \E i \in DOMAIN requestQueue :
        /\ requestQueue[i].id \in JobIds
        /\ jobMeta[requestQueue[i].id].status = "queued"
        /\ jobMeta[requestQueue[i].id].ttl < JOB_TTL_SECONDS * 1000

\* C5: with a deadline of 500 ms and no worker running, waitForResult reports
\* the timeout no earlier than 500 ms and earlier than 600 ms after its call.
C5_TimeoutWithin600 ==
    \A c \in DOMAIN caller :
        /\ config.SEARCH_TIMEOUT_MS = 500
        /\ \A w \in DOMAIN worker : worker[w].pc = "down"
        /\ caller[c].pc = "done"
        /\ caller[c].message = TimeoutMessage
        => caller[c].elapsed >= 500 /\ caller[c].elapsed < 600

\* Caller c is inside waitForResult.
Waiting(c) == caller[c].pc \in {"loop", "brpop", "del", "set"}

\* C4: every call of waitForResult ends, whether or not a worker runs, and
\* it ends either with the envelope published for its job id or, with no
\* envelope received and the deadline passed, with the timeout error.
C4_WaitTerminates ==
    \A c \in OneCaller :
        /\ Waiting(c) ~> caller[c].pc = "done"
        /\ [](caller[c].pc = "done" /\ caller[c].jobId # NoId =>
                \/ /\ published[caller[c].jobId] # << >>
                   /\ caller[c].got = published[caller[c].jobId][1]
                   /\ caller[c].message # TimeoutMessage
                \/ /\ caller[c].got = NoEnvelope
                   /\ caller[c].message = TimeoutMessage
                   /\ caller[c].elapsed >= config.SEARCH_TIMEOUT_MS)

\* A call that ended with the timeout error while no worker was running.
C4_Witness ==
    \E c \in DOMAIN caller :
        /\ caller[c].pc = "done"
        /\ caller[c].message = TimeoutMessage
        /\ \A w \in DOMAIN worker : worker[w].pc = "down"

\* C6: a failure raised inside handleJob's try keeps the job and its
\* message and enters the catch, and the catch publishes, in one step, the
\* envelope with status error, that message and the job's filters: result
\* push, result-key expiry and the error status record together.
C6_ErrorEnvelopePublished ==
    [][\A w \in DOMAIN worker :
          LET job == worker[w].job
              envelope == ErrorEnvelope(job.payload, worker[w].error) IN
          /\ worker[w].pc # "catch" /\ worker'[w].pc = "catch" =>
                /\ worker[w].pc \in {"fetch", "enrich", "publish"}
                /\ worker'[w].job = job
                /\ worker'[w].error # ""
          /\ worker[w].pc = "catch" /\ worker'[w] # worker[w] =>
                /\ worker[w].error # ""
                /\ job.payload = Submitted(job.id)
                /\ resultQueue'[job.id] = Append(resultQueue[job.id], envelope)
                /\ published'[job.id] = Append(published[job.id], envelope)
                /\ resultTtl'[job.id] = RESULT_TTL_SECONDS * 1000
                /\ jobMeta'[job.id] = Meta("error", RESULT_TTL_SECONDS)
                /\ worker'[w].pc = "blpop"]_vars

\* An error envelope with the source's message sits in a result list.
C6_Witness ==
    \E id \in JobIds :
        /\ resultQueue[id] # << >>
        /\ resultQueue[id][1].status = "error"
        /\ resultQueue[id][1].error \in GitHubErrors
        /\ jobMeta[id].status = "error"

\* C7: a malformed request taken from the request list (unparseable, or
\* without id, payload or the topic inside the payload) never causes an
\* envelope to be pushed to a result list for its id.
C7_MalformedNeverPublished ==
    \A id \in ForeignIds : published[id] = << >>

\* C8: a worker that takes a text it does not accept drops it and stays at
\* the blocking pop; a worker always returns to the blocking pop; and, when
\* the primary source answers every request, every well-formed job on the
\* request list gets a completed envelope published, malformed texts before
\* or after it notwithstanding.
C8_Isolation ==
    /\ [][\A w \in OneWorker :
            /\ worker[w].pc = "blpop"
            /\ requestQueue # << >>
            /\ ~accepted(Head(requestQueue))
            /\ requestQueue' = Tail(requestQueue)
            => /\ worker'[w] = worker[w]
               /\ UNCHANGED <<jobMeta, resultQueue, published>>]_vars
    /\ \A w \in OneWorker : worker[w].pc # "blpop" ~> worker[w].pc = "blpop"
    /\ \A id \in JobIds :
            config.sourcesOk /\ InQueue(id)
            ~> published[id] # << >> /\ published[id][1].status = "completed"

\* The malformed text was taken and the caller's job came back completed.
C8_Witness ==
    /\ foreign = 0
    /\ requestQueue = << >>
    /\ \E c \in DOMAIN caller :
          /\ caller[c].outcome = "returned"
          /\ published[caller[c].jobId][1].status = "completed"

C10_NoRequestLost ==
    \A id \in JobIds :
        Enqueued(id) =>
            \/ InQueue(id)
            \/ \E w \in DOMAIN worker : Holding(w, id)
            \/ published[id] # << >>

\* An envelope was published for job id.
Answered(id) == id \in AllIds /\ published[id] # << >>

\* The result list of job id does not exist.
NoResultKey(id) == id \in AllIds => resultQueue[id] = << >> /\ resultTtl[id] = 0

\* Caller c gave up its wait with the timeout error.
TimedOut(c) == caller[c].pc = "done" /\ caller[c].message = TimeoutMessage

\* C11: a timeout of waitForResult does not cancel the job: the step that
\* throws the timeout changes neither the request list nor any status or
\* result key, and the caller does nothing afterwards (it never reads an
\* envelope); a job still on the request list then is dequeued and gets its
\* envelope published all the same, and an envelope in the abandoned result
\* list is removed by key expiry.
C11_TimeoutDoesNotCancel ==
    /\ [][\A c \in Callers :
            /\ ~TimedOut(c) /\ TimedOut(c)' =>
                  UNCHANGED <<requestQueue, jobMeta, resultQueue, resultTtl>>
            /\ TimedOut(c) => caller'[c] = caller[c] /\ caller[c].got = NoEnvelope]_vars
    /\ \A c \in Callers :
          TimedOut(c) /\ InQueue(caller[c].jobId) ~> Answered(caller[c].jobId)
    /\ \A c \in Callers :
          TimedOut(c) /\ ~NoResultKey(caller[c].jobId) ~> NoResultKey(caller[c].jobId)

\* A job completed for a caller that had given up; its envelope expired unread.
C11_Witness ==
    \E c \in DOMAIN caller :
        /\ TimedOut(c)
        /\ published[caller[c].jobId] # << >>
        /\ published[caller[c].jobId][1].status = "completed"
        /\ resultQueue[caller[c].jobId] = << >>
        /\ caller[c].got = NoEnvelope

\* C12: in every reachable state, a result list that holds an envelope has an
\* expiry, and the status record of its job is terminal (completed or error)
\* and equals the status of that envelope.
C12_ResultHasTerminalStatus ==
    \A id \in AllIds :
        resultQueue[id] # << >> =>
            /\ resultTtl[id] > 0
            /\ jobMeta[id].status \in {"completed", "error"}
            /\ \A i \in DOMAIN resultQueue[id] : resultQueue[id][i].status = jobMeta[id].status

\* A published envelope still waits, part-way to expiry, next to its status.
C12_Witness ==
    \E id \in JobIds :
        /\ resultQueue[id] # << >>
        /\ resultTtl[id] < RESULT_TTL_SECONDS * 1000
        /\ jobMeta[id].status = resultQueue[id][1].status

\* C13: in every reachable state, a job whose status record reads queued has
\* its envelope on the request list.
C13_QueuedIsInQueue ==
    \A id \in JobIds : jobMeta[id].status = "queued" => InQueue(id)

\* C14: every existing status key and every existing result key has a time
\* to live; once nobody writes to a job's keys any more, a worker shut down
\* in mid-job included, both keys are removed by expiry; and a job on the
\* request list is taken by a running worker whatever records are stuck.
C14_KeysExpire ==
    /\ [](\A id \in AllIds :
             /\ jobMeta[id].status # "none" => jobMeta[id].ttl > 0
             /\ resultQueue[id] # << >> => resultTtl[id] > 0
             /\ resultQueue[id] = << >> => resultTtl[id] = 0)
    /\ \A id \in AllIds : <>[](jobMeta[id].status = "none" /\ NoResultKey(id))
    /\ \A id \in JobIds : InQueue(id) ~> ~InQueue(id) /\ handled[id] = 1

\* A worker was shut down in mid-job, the processing record it left has
\* expired, and the other job was answered.
C14_Witness ==
    \E w \in DOMAIN worker : \E id, other \in JobIds :
        /\ worker[w].pc = "down"
        /\ worker[w].job.id = id
        /\ published[id] = << >>
        /\ jobMeta[id].status = "none" /\ metaExpired[id]
        /\ other # id
        /\ published[other] # << >>

\* C15: the status record of a job only advances: queued is written once,
\* for a job no worker has taken and nobody has answered; queued is followed
\* by processing; processing never goes back to queued; a terminal value is
\* never replaced by another value; and once an envelope is published the
\* record reads that envelope's status. Expiry alone removes a record.
C15_StatusAdvances ==
    /\ [][\A id \in AllIds :
            LET a == jobMeta[id].status
                b == jobMeta'[id].status IN
            /\ a = "queued" => b \in {"queued", "processing", "none"}
            /\ a = "processing" => b \in {"processing", "completed", "error", "none"}
            /\ a \in {"completed", "error"} => b \in {a, "none"}
            /\ a # "queued" /\ b = "queued" =>
                  a = "none" /\ handled[id] = 0 /\ published[id] = << >> /\ ~metaExpired[id]
            /\ a # "none" /\ b = "none" => metaExpired'[id]]_vars
    /\ [](\A id \in AllIds :
             published[id] # << >> => jobMeta[id].status \in {published[id][1].status, "none"})

\* The caller received an error envelope and wrote error over the worker's error.
C15_Witness ==
    \E c \in DOMAIN caller :
        /\ caller[c].pc = "done"
        /\ caller[c].got.status = "error"
        /\ jobMeta[caller[c].jobId] = Meta("error", JOB_TTL_SECONDS)

\* Worker w is at or past a request to the primary or the enrichment source.
Fetching(w) == worker[w].pc \in {"fetch", "enrich", "publish", "catch"}

\* C16: for every job a worker accepts, the step that brings the worker to
\* its first external request is the write of the processing record with
\* the job's topic, by that worker, for that job; no request to the primary
\* or the enrichment source is made from anywhere else.
C16_ProcessingBeforeFetch ==
    [][\A w \in DOMAIN worker :
          /\ ~Fetching(w) /\ Fetching(w)' =>
                /\ worker[w].pc = "status"
                /\ worker'[w].pc = "fetch"
                /\ worker'[w].job = worker[w].job
                /\ jobMeta'[worker[w].job.id] =
                       [status |-> "processing", ttl |-> RESULT_TTL_SECONDS * 1000,
                        topic |-> worker[w].job.payload.topic]
          /\ worker[w].pc = "status" /\ worker'[w] # worker[w] =>
                worker'[w].pc = "fetch"]_vars

\* A worker is waiting for the enrichment source under its processing record.
C16_Witness ==
    \E w \in DOMAIN worker :
        /\ worker[w].pc = "enrich"
        /\ jobMeta[worker[w].job.id].status = "processing"
        /\ jobMeta[worker[w].job.id].topic = worker[w].job.payload.topic
        /\ worker[w].job.payload.topic \in Topics

\* C17: no failure ends the worker's loop: a store command that throws at
\* loop level (the blocking pop, the processing write, the catch's publishing
\* batch) sends the worker to a backoff of 1000 ms, after the whole of which
\* it issues the blocking pop again; the worker is again and again at the
\* blocking pop.
C17_LoopNeverEnds ==
    /\ [](\A w \in OneWorker : worker[w].pc # "down")
    /\ [][\A w \in OneWorker :
            /\ worker[w].pc # "backoff" /\ worker'[w].pc = "backoff" =>
                  /\ worker[w].pc \in {"blpop", "status", "catch"}
                  /\ faults' = faults - 1
                  /\ worker'[w].backoff = 1000
            /\ worker[w].pc = "backoff" /\ worker'[w].pc # "backoff" =>
                  /\ worker[w].backoff = 0
                  /\ worker'[w].pc = "blpop"]_vars
    /\ \A w \in OneWorker : []<>(worker[w].pc = "blpop")

\* The worker is back at the blocking pop after a failure that cost it its job.
C17_Witness ==
    \E w \in DOMAIN worker : \E id \in JobIds :
        /\ worker[w].pc = "blpop"
        /\ handled[id] = 1
        /\ published[id] = << >>
        /\ faults < MaxFaults

\* The lookup gave no answer: a response that is not ok, a network error, an
\* unparseable body, or a body whose answer is empty or missing.
NoAnswer(lookup) == lookup.kind # "ok" \/ lookup.answer = ""

\* The lookup gave no text at all: as NoAnswer, and no result content either.
NoText(lookup) == lookup.kind # "ok" \/ (lookup.answer = "" /\ lookup.content = "")

\* Every lookup leads to the publishing of a completed envelope with the
\* projects as the enrichment loop left them.
EnrichmentCompletes ==
    \A w \in DOMAIN worker :
        /\ worker[w].pc = "enrich" /\ worker'[w] # worker[w] =>
              /\ worker'[w].pc \in {"enrich", "publish"}
              /\ worker'[w].job = worker[w].job
              /\ worker'[w].lookup \in TavilyOutcomes
        /\ worker[w].pc = "publish" /\ worker'[w] # worker[w] =>
              published'[worker[w].job.id] =
                  <<CompletedEnvelope(worker[w].job.payload, worker[w].projects,
                                      worker[w].totalFetched)>>

\* C18 as stated: whatever a lookup comes to, handleJob publishes a completed
\* envelope, and after a lookup without an answer (not ok, network error,
\* unparseable body, empty or missing answer) the description is as
\* normalization left it.
C18_EnrichmentNeverFails ==
    [][/\ EnrichmentCompletes
       /\ \A w \in DOMAIN worker :
             worker[w].pc = "enrich" /\ worker'[w] # worker[w]
             /\ NoAnswer(worker'[w].lookup) =>
                 worker'[w].projects = worker[w].projects]_vars

\* C18 as amended: whatever a lookup comes to, handleJob publishes a
\* completed envelope, and after a lookup that gave no text (not ok, network
\* error, unparseable body, neither an answer nor the content of a result)
\* the description is as normalization left it; an empty or missing answer
\* with result content present puts that content in its place.
C18_EnrichmentNeverFailsNoText ==
    [][/\ EnrichmentCompletes
       /\ \A w \in DOMAIN worker :
             /\ worker[w].pc = "enrich" /\ worker'[w] # worker[w]
                /\ NoText(worker'[w].lookup) =>
                   worker'[w].projects = worker[w].projects
             /\ worker[w].pc = "enrich" /\ worker'[w] # worker[w]
                /\ ~NoText(worker'[w].lookup) =>
                   /\ needsDescription(worker[w].projects[worker[w].cursor])
                   /\ ~needsDescription(worker'[w].projects[worker[w].cursor])]_vars

\* A lookup failed and the job is about to be published with the empty
\* description it had.
C18_Witness ==
    \E w \in DOMAIN worker :
        /\ worker[w].pc = "publish"
        /\ worker[w].lookup.kind = "not ok"
        /\ worker[w].projects = <<normalizeRepo(Repo(0, ""))>>

\* The topic argument is absent, empty or only white space.
NoTopic(topic) == topic = Undefined \/ \A i \in DOMAIN topic : topic[i] = " "

\* C19: a handler call whose topic is absent, empty or only white space
\* fails in that very step with the validation error and leaves the store as
\* it was: no job id is drawn, no status record written, nothing appended to
\* the request list; a call with any other topic enqueues the trimmed topic.
C19_BlankTopicRejected ==
    [][\A c \in DOMAIN caller :
          caller[c].pc = "idle" /\ caller'[c].pc # "idle" =>
              IF NoTopic(caller'[c].topic)
              THEN /\ caller'[c].pc = "done"
                   /\ caller'[c].outcome = "thrown"
                   /\ caller'[c].message = ValidationMessage
                   /\ caller'[c].jobId = NoId
                   /\ UNCHANGED <<nextId, jobMeta, requestQueue, resultQueue, resultTtl,
                                  published>>
              ELSE /\ caller'[c].message # ValidationMessage
                   /\ nextId' = nextId + 1
                   /\ caller'[c].payload.topic \in Topics]_vars

\* A call with a topic of white space was refused and the store is empty.
C19_Witness ==
    \E c \in DOMAIN caller :
        /\ caller[c].pc = "done"
        /\ caller[c].topic = <<" ">>
        /\ caller[c].message = ValidationMessage
        /\ nextId = 1
        /\ requestQueue = << >>
        /\ \A id \in AllIds : jobMeta[id].status = "none"

\* C20: a worker past fetchRepositories holds the first min(limit, fetched)
\* candidates and totalFetched is the number of candidates the primary
\* source returned; the completed envelope it publishes carries these; so in
\* every completed envelope the number of projects is at most filters.limit
\* and at most totalFetched, and five candidates with limit 3 give three
\* projects and totalFetched 5.
C20_ProjectsWithinLimit ==
    /\ [](\A w \in DOMAIN worker :
             worker[w].pc \in {"enrich", "publish"} =>
                 /\ worker[w].totalFetched = Len(worker[w].items)
                 /\ Len(worker[w].projects) =
                        Min(floor(worker[w].job.payload.limit), Len(worker[w].items))
                 /\ worker[w].job.payload.limit = 3 * Unit /\ worker[w].items = ExamplePool =>
                        Len(worker[w].projects) = 3 /\ worker[w].totalFetched = 5)
    /\ [][\A w \in DOMAIN worker :
             worker[w].pc = "publish" /\ worker'[w] # worker[w] =>
                 /\ Len(published'[worker[w].job.id]) = 1
                 /\ published'[worker[w].job.id][1].status = "completed"
                 /\ published'[worker[w].job.id][1].filters = worker[w].job.payload
                 /\ published'[worker[w].job.id][1].totalFetched = worker[w].totalFetched
                 /\ Len(published'[worker[w].job.id][1].projects) = Len(worker[w].projects)]_vars
    /\ [](\A id \in JobIds : \A i \in DOMAIN published[id] :
             published[id][i].status = "completed" =>
                 /\ Len(published[id][i].projects) * Unit <= published[id][i].filters.limit
                 /\ Len(published[id][i].projects) <= published[id][i].totalFetched)

\* Five candidates were fetched for a job with limit 3 and three were published.
C20_Witness ==
    \E id \in JobIds :
        /\ published[id] # << >>
        /\ published[id][1].status = "completed"
        /\ published[id][1].filters.limit = 3 * Unit
        /\ published[id][1].totalFetched = 5
        /\ Len(published[id][1].projects) = 3

\* Candidate j of the fetched items goes before candidate i: its score is
\* higher, or it is as high and the source returned it earlier.
Before(items, j, i) ==
    \/ normalizeRepo(items[j]).score > normalizeRepo(items[i]).score
    \/ normalizeRepo(items[j]).score = normalizeRepo(items[i]).score /\ j < i

\* C21: what fetchRepositories hands on is, place by place, the normalized
\* candidate that has exactly that many of the fetched candidates before it
\* (higher score, or equal score and returned earlier), for the first
\* min(limit, fetched) places; enrichment and publishing keep the places and
\* scores; and the projects of every completed envelope are in
\* non-increasing score order.
C21_RankedAndStable ==
    /\ [][\A w \in DOMAIN worker :
            LET items == worker'[w].items
                projects == worker'[w].projects IN
            /\ worker[w].pc = "fetch" /\ worker'[w].pc \in {"enrich", "publish"} =>
                  /\ Len(projects) = Min(floor(worker[w].job.payload.limit), Len(items))
                  /\ \A k \in DOMAIN projects : \E i \in DOMAIN items :
                        /\ projects[k] = normalizeRepo(items[i])
                        /\ Cardinality({j \in DOMAIN items : Before(items, j, i)}) = k - 1
            /\ worker[w].pc = "enrich" /\ worker'[w] # worker[w] =>
                  /\ Len(projects) = Len(worker[w].projects)
                  /\ \A k \in DOMAIN projects :
                        /\ projects[k].score = worker[w].projects[k].score
                        /\ projects[k].stars = worker[w].projects[k].stars
            /\ worker[w].pc = "publish" /\ worker'[w] # worker[w] =>
                  published'[worker[w].job.id][1].projects = worker[w].projects]_vars
    /\ [](\A id \in JobIds : \A n \in DOMAIN published[id] :
             \A i, j \in DOMAIN published[id][n].projects :
                 i < j => published[id][n].projects[i].score >= published[id][n].projects[j].score)

\* Two candidates of equal score were published in the order they were fetched.
C21_Witness ==
    \E id \in JobIds :
        /\ published[id] # << >>
        /\ Len(published[id][1].projects) = 2
        /\ published[id][1].projects[1].score = published[id][1].projects[2].score
        /\ published[id][1].projects[2].description = "b"

\* C22: in every envelope published for a job whose filters carry a number
\* as minStars, every project has at least that many stars.
C22_MinStarsRespected ==
    \A id \in JobIds : \A n \in DOMAIN published[id] :
        LET envelope == published[id][n] IN
        envelope.filters.minStars.kind = "number" =>
            \A i \in DOMAIN envelope.projects :
                envelope.projects[i].stars * Unit >= envelope.filters.minStars.n

\* A whole number.
isInteger(n) == n % Unit = 0

\* C25: the limit of every request the handler enqueued is a whole number
\* from 1 to 15, and it is 6 when the caller passed no limit, 0, a negative
\* number or something that is no number.
C25_LimitInRange ==
    \A c \in DOMAIN caller :
        caller[c].jobId \in JobIds =>
            LET limit == caller[c].payload.limit
                arg == caller[c].limit IN
            /\ isInteger(limit) /\ Unit <= limit /\ limit <= 15 * Unit
            /\ arg.kind # "number" \/ arg.n <= 0 => limit = 6 * Unit

\* The freshness entry of a project's reasons: the last one.
Freshness(project) == project.reasons[Len(project.reasons)].text

\* The documented bucket of a project's day count is the one its reasons name.
InDocumentedBucket(project) ==
    LET d == project.daysSinceUpdate
        known == project.lastPushedAt # Null
        text == Freshness(project) IN
    /\ text = "unknown activity" <=> ~known
    /\ text = "updated this week" <=> known /\ d <= 7
    /\ text = "updated this month" <=> known /\ 7 < d /\ d <= 30
    /\ text = "activity within the last quarter" <=> known /\ 30 < d /\ d <= 90
    /\ text = "activity within the last six months" <=> known /\ 90 < d /\ d <= 180
    /\ text = "activity within the last year" <=> known /\ 180 < d /\ d <= 365
    /\ text = "no recent commits in the last year" <=> known /\ 365 < d

\* C23: every project a worker holds or has published names, as its
\* freshness, the documented bucket of its day count and no other: up to 7
\* this week, up to 30 this month, up to 90 the last quarter, up to 180 the
\* last six months, up to 365 the last year, beyond that no recent commits,
\* and unknown activity exactly when it has no date.
C23_FreshnessBuckets ==
    /\ \A w \in DOMAIN worker : \A i \in DOMAIN worker[w].projects :
          InDocumentedBucket(worker[w].projects[i])
    /\ \A id \in JobIds : \A n \in DOMAIN published[id] :
          \A i \in DOMAIN published[id][n].projects :
              InDocumentedBucket(published[id][n].projects[i])

\* A project with day count d and freshness text is in the projects.
HasProject(projects, d, text) ==
    \E i \in DOMAIN projects :
        /\ projects[i].lastPushedAt # Null
        /\ projects[i].daysSinceUpdate = d
        /\ Freshness(projects[i]) = text

\* An envelope was published with a project at each of 7, 30, 90, 180 and 365
\* days in the lower bucket, one just above each in the next, and one
\* without a date.
C23_Witness ==
    \E id \in JobIds :
        /\ published[id] # << >>
        /\ LET projects == published[id][1].projects IN
           /\ HasProject(projects, 7, "updated this week")
           /\ HasProject(projects, 8, "updated this month")
           /\ HasProject(projects, 30, "updated this month")
           /\ HasProject(projects, 31, "activity within the last quarter")
           /\ HasProject(projects, 90, "activity within the last quarter")
           /\ HasProject(projects, 91, "activity within the last six months")
           /\ HasProject(projects, 180, "activity within the last six months")
           /\ HasProject(projects, 181, "activity within the last year")
           /\ HasProject(projects, 365, "activity within the last year")
           /\ HasProject(projects, 366, "no recent commits in the last year")
           /\ \E i \in DOMAIN projects :
                 /\ projects[i].lastPushedAt = Null
                 /\ Freshness(projects[i]) = "unknown activity"

\* Every project of every envelope published so far.
PublishedProjects ==
    UNION {UNION {{published[id][n].projects[i] : i \in DOMAIN published[id][n].projects} :
                     n \in DOMAIN published[id]} : id \in JobIds}

\* C24: two normalizations of one raw candidate (same stars, same date),
\* whenever they were made, agree on daysSinceUpdate, score and reasons.
C24_NormalizeRepoPure ==
    \A p, q \in PublishedProjects :
        p.stars = q.stars /\ p.lastPushedAt = q.lastPushedAt =>
            /\ p.daysSinceUpdate = q.daysSinceUpdate
            /\ p.score = q.score
            /\ p.reasons = q.reasons

\* C26: while waitForResult waits, the time left to its deadline is the
\* timeout it entered with less the time that has passed since; every blocking
\* pop it starts is started before the deadline, with the whole seconds that
\* are left to that deadline (at least one) as its timeout; an empty wake-up
\* leaves the deadline alone; and at or after the deadline it starts no pop
\* but throws the timeout error.
C26_DeadlineFixed ==
    /\ [](\A c \in DOMAIN caller :
             caller[c].pc \in {"loop", "brpop"} =>
                 caller[c].deadline = Max(0, config.SEARCH_TIMEOUT_MS - caller[c].elapsed))
    /\ [][\A c \in DOMAIN caller :
            /\ caller'[c].pc = "brpop" /\ caller[c].pc # "brpop" =>
                  /\ caller[c].pc = "loop"
                  /\ caller[c].deadline > 0
                  /\ caller'[c].deadline = caller[c].deadline
                  /\ caller'[c].block = 1000 * Max(1, CeilDiv(caller[c].deadline, 1000))
            /\ caller[c].pc = "brpop" /\ caller'[c].pc = "loop" =>
                  /\ caller'[c].deadline = caller[c].deadline
                  /\ caller'[c].elapsed = caller[c].elapsed
            /\ caller[c].pc = "loop" /\ caller[c].deadline = 0 /\ caller'[c] # caller[c] =>
                  TimedOut(c)']_vars

\* After an empty wake-up half a second into a wait of 1.5 s, the caller is in
\* a second pop that it started with a timeout of one second.
C26_Witness ==
    \E c \in DOMAIN caller :
        /\ config.SEARCH_TIMEOUT_MS = 1500
        /\ caller[c].pc = "brpop"
        /\ caller[c].elapsed = 500
        /\ caller[c].deadline = 1000
        /\ caller[c].block = 1000

\* C27: a caller that has received an envelope first deletes the result
\* list of its job, the status record still as it was; then it writes the
\* envelope's status, completed or error, to the status record with
\* JOB_TTL_SECONDS to live; and only with that write does waitForResult
\* return: in the state it returns in, the job has no result list and its
\* status is the envelope's.
C27_DeleteThenStatusThenReturn ==
    [][\A c \in DOMAIN caller :
          LET id == caller[c].jobId IN
          /\ caller[c].pc = "brpop" /\ caller'[c].got # caller[c].got =>
                caller'[c].pc = "del"
          /\ caller[c].pc = "del" /\ caller'[c] # caller[c] =>
                /\ caller'[c].pc = "set"
                /\ caller'[c].got = caller[c].got
                /\ resultQueue'[id] = << >> /\ resultTtl'[id] = 0
                /\ jobMeta'[id] = jobMeta[id]
          /\ caller[c].pc = "set" /\ caller'[c] # caller[c] =>
                /\ caller'[c].pc = "done"
                /\ caller[c].got.status \in {"completed", "error"}
                /\ jobMeta'[id].status = caller[c].got.status
                /\ jobMeta'[id].ttl = JOB_TTL_SECONDS * 1000
                /\ resultQueue'[id] = << >> /\ resultTtl'[id] = 0
                /\ caller'[c].got = caller[c].got
          /\ caller'[c].pc = "done" /\ caller[c].pc # "done" /\ caller'[c].got # NoEnvelope =>
                caller[c].pc = "set"]_vars

\* waitForResult has returned a completed envelope: the job has no result
\* list and its status record reads completed.
C27_Witness ==
    \E c \in DOMAIN caller :
        /\ caller[c].pc = "done"
        /\ caller[c].outcome = "returned"
        /\ caller[c].got.status = "completed"
        /\ resultQueue[caller[c].jobId] = << >>
        /\ jobMeta[caller[c].jobId].status = "completed"
        /\ jobMeta[caller[c].jobId].ttl = JOB_TTL_SECONDS * 1000

\* C28: a worker sends at most one request to the primary source while it
\* processes a job, and exactly one, built from the job's filters, before it
\* publishes the job's envelope; a request that fails brings the worker to
\* its catch, whose next step publishes the error envelope with that failure
\* and takes the next job; and once a job has its envelope it is on no queue
\* and with no worker, so that nothing requests for it again.
C28_OneRequestNoRetry ==
    /\ [](\A w \in DOMAIN worker :
             /\ Len(worker[w].requests) <= 1
             /\ worker[w].pc \in {"enrich", "publish", "catch"} =>
                   worker[w].requests = <<buildGitHubQuery(worker[w].job.payload)>>)
    /\ [][\A w \in DOMAIN worker :
            LET id == worker[w].job.id IN
            /\ worker[w].pc = "fetch" /\ worker'[w] # worker[w] =>
                  /\ Len(worker'[w].requests) = 1
                  /\ worker'[w].pc \in {"enrich", "publish", "catch"}
                  /\ worker'[w].pc = "catch" => worker'[w].error \in GitHubErrors
            /\ worker[w].pc = "catch" /\ worker'[w] # worker[w] =>
                  /\ published'[id] = <<ErrorEnvelope(worker[w].job.payload, worker[w].error)>>
                  /\ worker'[w] = IdleWorker("blpop")]_vars
    /\ [](\A id \in JobIds :
             published[id] # << >> =>
                 ~InQueue(id) /\ \A w \in DOMAIN worker : ~Holding(w, id))

\* The one request of a job failed, the job's error envelope is published,
\* and the worker that processed it waits for the next job.
C28_Witness ==
    \E id \in JobIds :
        /\ Len(published[id]) = 1
        /\ published[id][1].status = "error"
        /\ published[id][1].error \in GitHubErrors
        /\ handled[id] = 1
        /\ \A w \in DOMAIN worker : worker[w].pc = "blpop" /\ worker[w].requests = << >>

\* C29: without an enrichment credential no worker ever makes a lookup;
\* a job whose primary request succeeds goes from there straight to
\* publishing, its projects being normalized candidates with the descriptions
\* the source gave; what it publishes is the completed envelope with those
\* projects; and the only failures are those of the primary source.
C29_NoCredentialNoLookup ==
    /\ [](~config.hasTavily =>
             \A w \in DOMAIN worker :
                 /\ worker[w].pc # "enrich"
                 /\ worker[w].lookups = << >> /\ worker[w].lookup = NoLookup
                 /\ worker[w].pc = "catch" => worker[w].error \in GitHubErrors
                 /\ worker[w].pc = "publish" =>
                       \A k \in DOMAIN worker[w].projects : \E i \in DOMAIN worker[w].items :
                           worker[w].projects[k] = normalizeRepo(worker[w].items[i]))
    /\ [][~config.hasTavily =>
             \A w \in DOMAIN worker :
                 /\ worker[w].pc = "fetch" /\ worker'[w] # worker[w] /\ worker'[w].error = "" =>
                       worker'[w].pc = "publish"
                 /\ worker[w].pc = "publish" /\ worker'[w] # worker[w] =>
                       published'[worker[w].job.id] =
                           <<CompletedEnvelope(worker[w].job.payload, worker[w].projects,
                                               worker[w].totalFetched)>>]_vars

\* Without a credential a completed envelope was published with a project
\* whose description is empty, as the source gave it.
C29_Witness ==
    /\ ~config.hasTavily
    /\ \E id \in JobIds :
          /\ published[id] # << >>
          /\ published[id][1].status = "completed"
          /\ \E i \in DOMAIN published[id][1].projects :
                published[id][1].projects[i].description = ""

\* s is strictly increasing.
Increasing(s) == \A i, j \in DOMAIN s : i < j => s[i] < s[j]

\* C30: every lookup a worker makes is for a project of the job's output,
\* within the first limit places of the ranking, whose description needs one
\* when the lookup is made; the places looked up only go forward, so no
\* project is looked up twice; and a job has at most limit lookups.
C30_LookupsOnlyForOutput ==
    /\ [](\A w \in DOMAIN worker :
             LET lookups == worker[w].lookups IN
             /\ Increasing(lookups)
             /\ \A n \in DOMAIN lookups :
                   /\ lookups[n] \in DOMAIN worker[w].projects
                   /\ lookups[n] * Unit <= worker[w].job.payload.limit
             /\ Len(lookups) * Unit <= worker[w].job.payload.limit
             /\ Len(worker[w].projects) * Unit <= worker[w].job.payload.limit)
    /\ [][\A w \in DOMAIN worker :
             worker'[w].lookups # worker[w].lookups /\ worker'[w].lookups # << >> =>
                 /\ worker'[w].lookups = Append(worker[w].lookups, worker[w].cursor)
                 /\ worker[w].cursor \in DOMAIN worker[w].projects
                 /\ needsDescription(worker[w].projects[worker[w].cursor])]_vars

\* Of five candidates, two without description, three were kept, and the one
\* lookup made was for the second of them: the candidate without description
\* that was cut got none.
C30_Witness ==
    \E w \in DOMAIN worker :
        /\ worker[w].pc = "publish"
        /\ worker[w].items = ExamplePool
        /\ worker[w].job.payload.limit = 3 * Unit
        /\ worker[w].lookups = <<2>>

\* The places of the projects a worker has looked up.
LookedUp(w) == {worker[w].lookups[n] : n \in DOMAIN worker[w].lookups}

\* Worker w is in the enrichment loop of job id, a lookup still to finish.
LookupPending(w, id) == worker[w].pc = "enrich" /\ worker[w].job.id = id

\* C31: while a lookup of a job is still to finish, the job has no envelope
\* in its result list, none published, and no terminal status; a worker that
\* has come to publish has, with a credential, finished a lookup for every
\* project that still needs a description; and an envelope is only ever
\* published by a worker that is past its enrichment loop.
C31_PublishedAfterLookups ==
    /\ [](\A id \in JobIds : \A w \in DOMAIN worker :
             LookupPending(w, id) =>
                 /\ resultQueue[id] = << >>
                 /\ published[id] = << >>
                 /\ jobMeta[id].status \notin {"completed", "error"})
    /\ [](\A w \in DOMAIN worker :
             worker[w].pc = "publish" /\ config.hasTavily =>
                 \A k \in DOMAIN worker[w].projects :
                     needsDescription(worker[w].projects[k]) => k \in LookedUp(w))
    /\ [][\A id \in JobIds :
             published'[id] # published[id] =>
                 \E w \in DOMAIN worker :
                     /\ worker[w].job.id = id
                     /\ worker[w].pc \in {"publish", "catch"}
                     /\ worker'[w] = IdleWorker("blpop")]_vars

\* With a credential, a completed envelope of five projects was published in
\* which both projects that came without description have one.
C31_Witness ==
    /\ config.hasTavily
    /\ \E id \in JobIds :
          /\ resultQueue[id] # << >>
          /\ published[id][1].status = "completed"
          /\ Len(published[id][1].projects) = 5
          /\ published[id][1].projects[1].description = "e"
          /\ \A i \in 1..5 : published[id][1].projects[i].description # ""

\* The descriptions of the description scenario that need enrichment: the
\* empty one, null and undefined in any case, and the one that starts with
\* "No description".
NeedingDescriptions ==
    {"", "Null", "UNDEFINED", "No description, website, or topics provided."}

\* C32: normalization only trims a description; a step of the enrichment
\* loop changes at most the description of the project it is at, and it does
\* so exactly when that description is one that needs enrichment and the
\* lookup came back with a text that is not empty, which then is the new
\* description; every other project and every other field stays as it was;
\* and the projects published are the worker's as they then are.
C32_OnlyNeededDescriptionsChange ==
    [][\A w \in DOMAIN worker :
          LET before == worker[w].projects
              after == worker'[w].projects
              i == worker[w].cursor
              text == fetchDescriptionFromTavily(worker'[w].lookup) IN
          /\ worker[w].pc = "enrich" /\ worker'[w] # worker[w] =>
                /\ DOMAIN after = DOMAIN before
                /\ \A k \in DOMAIN before : k # i => after[k] = before[k]
                /\ after[i] = [before[i] EXCEPT !.description = after[i].description]
                /\ after[i].description # before[i].description <=>
                      /\ before[i].description \in NeedingDescriptions
                      /\ text # "" /\ text # before[i].description
                /\ after[i].description # before[i].description =>
                      after[i].description = text
          /\ worker[w].pc = "fetch" /\ worker'[w].pc = "publish" /\ config.hasTavily =>
                \A k \in DOMAIN after : after[k].description \notin NeedingDescriptions
          /\ worker[w].pc = "publish" /\ worker'[w] # worker[w] =>
                published'[worker[w].job.id][1].projects = before]_vars

\* With a credential an envelope was published in which the description
\* that was white space is still empty, the one that read "Null" was
\* replaced, and "Nothing" and "a" are as the source gave them.
C32_Witness ==
    /\ config.hasTavily
    /\ \E id \in JobIds :
          /\ published[id] # << >>
          /\ Len(published[id][1].projects) = 6
          /\ published[id][1].projects[1].description = ""
          /\ published[id][1].projects[2].description = "an answer"
          /\ published[id][1].projects[5].description = "Nothing"
          /\ published[id][1].projects[6].description = "a"

\* The entries of s are pairwise distinct.
PairwiseDistinct(s) == \A i, j \in DOMAIN s : i # j => s[i] # s[j]

\* The entries of s, as a set.
Range(s) == {s[i] : i \in DOMAIN s}

\* C33: the summary of every completed envelope says that nothing matched
\* the topic exactly when the envelope has no project; otherwise it states
\* the number of projects, calls them actively maintained exactly when the
\* filters ask for maintained projects only, lists every language of the
\* projects that is not empty exactly once, and lists as highlights at most
\* three first reasons of projects, no two of them the same.
C33_SummaryAsDocumented ==
    \A id \in JobIds : \A n \in DOMAIN published[id] :
        LET envelope == published[id][n]
            projects == envelope.projects
            summary == envelope.summary IN
        envelope.status = "completed" =>
            /\ summary.nothing <=> projects = << >>
            /\ summary.topic = envelope.filters.topic
            /\ ~summary.nothing =>
                  /\ summary.count = Len(projects)
                  /\ summary.maintained <=> envelope.filters.onlyMaintained
                  /\ PairwiseDistinct(summary.languages)
                  /\ Range(summary.languages) =
                         {projects[i].language : i \in DOMAIN projects} \ {""}
                  /\ Len(summary.highlights) <= 3
                  /\ Range(summary.highlights) \subseteq
                         {projects[i].reasons[1] : i \in DOMAIN projects}
                  /\ PairwiseDistinct(summary.highlights)

\* C34: every request a worker sends to the primary source for a job whose
\* limit is between 1 and 15 asks for min(2 * limit, 50) candidates, sorted
\* by stars, descending: never more than 50 and never fewer than limit.
C34_PoolSizeRequested ==
    \A w \in DOMAIN worker : \A n \in DOMAIN worker[w].requests :
        LET limit == worker[w].job.payload.limit
            query == worker[w].requests[n] IN
        Unit <= limit /\ limit <= 15 * Unit =>
            /\ query.per_page = Min(2 * limit, 50 * Unit)
            /\ query.per_page <= 50 * Unit
            /\ query.per_page >= limit
            /\ query.sort = "stars" /\ query.order = "desc"

\* A request for a job with limit 15 asked for 30 candidates.
C34_Witness ==
    \E w \in DOMAIN worker :
        /\ worker[w].job.payload.limit = 15 * Unit
        /\ worker[w].requests # << >>
        /\ worker[w].requests[1].per_page = 30 * Unit

\* The texts of the freshness buckets.
FreshnessTexts ==
    {"unknown activity", "updated this week", "updated this month",
     "activity within the last quarter", "activity within the last six months",
     "activity within the last year", "no recent commits in the last year"}

\* The place of a reason in the documented order: star count, fork count,
\* freshness bucket, license.
Place(reason) ==
    CASE reason.text = "stars" -> 1
      [] reason.text = "forks" -> 2
      [] reason.text \in FreshnessTexts -> 3
      [] OTHER -> 4

\* The reasons list r is the documented one for the raw candidate repo.
ReasonsAsDocumented(repo, r) ==
    /\ 1 <= Len(r) /\ Len(r) <= 4
    /\ \A i, j \in DOMAIN r : i < j => Place(r[i]) < Place(r[j])
    /\ (\E i \in DOMAIN r : Place(r[i]) = 1) <=> repo.stars # 0
    /\ (\E i \in DOMAIN r : Place(r[i]) = 2) <=> repo.forks # 0
    /\ \E i \in DOMAIN r : Place(r[i]) = 3
    /\ (\E i \in DOMAIN r : Place(r[i]) = 4) <=> repo.license.spdx_id # ""
    /\ \A i \in DOMAIN r :
          /\ Place(r[i]) = 1 => r[i].n = repo.stars
          /\ Place(r[i]) = 2 => r[i].n = repo.forks
          /\ Place(r[i]) = 4 => r[i].text = "License: " \o repo.license.spdx_id

\* C35: the reasons of every project a worker gets from fetchRepositories
\* are those documented for the raw candidate it was normalized from: the
\* star count if not 0, then the fork count if not 0, then one freshness
\* bucket, then the license if it has an identifier, each at most once,
\* between 1 and 4 entries; and the reasons stay so up to the envelope.
C35_ReasonsInOrder ==
    [][\A w \in DOMAIN worker :
          /\ worker[w].pc = "fetch" /\ worker'[w].pc \in {"enrich", "publish"} =>
                \A k \in DOMAIN worker'[w].projects : \E i \in DOMAIN worker'[w].items :
                    /\ worker'[w].projects[k] = normalizeRepo(worker'[w].items[i])
                    /\ ReasonsAsDocumented(worker'[w].items[i], worker'[w].projects[k].reasons)
          /\ worker[w].pc = "enrich" /\ worker'[w] # worker[w] =>
                \A k \in DOMAIN worker[w].projects :
                    worker'[w].projects[k].reasons = worker[w].projects[k].reasons
          /\ worker[w].pc = "publish" /\ worker'[w] # worker[w] =>
                published'[worker[w].job.id][1].projects = worker[w].projects]_vars

\* An envelope was published with a project of four reasons, one of two
\* (stars and freshness, its license having no identifier) and one of one.
C35_Witness ==
    \E id \in JobIds :
        /\ published[id] # << >>
        /\ LET projects == published[id][1].projects IN
           /\ \E k \in DOMAIN projects :
                 /\ Len(projects[k].reasons) = 4
                 /\ projects[k].reasons[4].text = "License: MIT"
           /\ \E k \in DOMAIN projects :
                 /\ projects[k].license = "Custom licence"
                 /\ Len(projects[k].reasons) = 2
           /\ \E k \in DOMAIN projects :
                 projects[k].reasons = <<Reason("updated this week", 0)>>

\* C36: with several callers and workers, an envelope is published for job
\* id J only by a worker that is processing J, with J's filters; and the
\* envelope waitForResult gets for J is the tail of J's own result list,
\* was published for J and carries the filters the caller submitted; the
\* result lists of the other jobs are left as they were.
C36_OwnEnvelopeReturned ==
    [][/\ \A id \in JobIds : published'[id] # published[id] =>
             \E w \in DOMAIN worker :
                 /\ worker[w].pc \in {"publish", "catch"} /\ worker[w].job.id = id
                 /\ worker'[w] # worker[w]
                 /\ published'[id] = Append(published[id], published'[id][Len(published'[id])])
                 /\ published'[id][Len(published'[id])].filters = worker[w].job.payload
       /\ \A c \in DOMAIN caller : caller[c].got = NoEnvelope /\ caller'[c].got # NoEnvelope =>
             LET id == caller[c].jobId IN
             /\ id \in JobIds
             /\ resultQueue[id] # << >>
             /\ caller'[c].got = resultQueue[id][Len(resultQueue[id])]
             /\ caller'[c].got \in Range(published[id])
             /\ caller'[c].got.filters = caller[c].payload
             /\ \A other \in JobIds \ {id} : resultQueue'[other] = resultQueue[other]]_vars

\* Two callers submitted different filters, an envelope was published for
\* each job, and each caller holds the envelope with its own filters.
C36_Witness ==
    \E c1, c2 \in DOMAIN caller :
        /\ caller[c1].payload # caller[c2].payload
        /\ caller[c1].got # NoEnvelope /\ caller[c2].got # NoEnvelope
        /\ caller[c1].got.filters = caller[c1].payload
        /\ caller[c2].got.filters = caller[c2].payload
        /\ caller[c1].got.filters # caller[c2].got.filters
        /\ Answered(caller[c1].jobId) /\ Answered(caller[c2].jobId)

\* C37: every BRPOP waitForResult issues has a timeout of a whole number
\* of seconds that is at least 1 and at most the time left to the deadline
\* rounded up to whole seconds (1 when less than a second is left); no pop
\* is issued or pending with timeout 0, under which the store would block
\* without limit.
C37_PopTimeoutBounded ==
    /\ [](\A c \in DOMAIN caller : caller[c].pc = "brpop" => caller[c].block # Forever)
    /\ [][\A c \in DOMAIN caller : caller[c].pc # "brpop" /\ caller'[c].pc = "brpop" =>
             LET left == caller[c].deadline
                 timeout == caller'[c].block IN
             /\ timeout % 1000 = 0
             /\ timeout >= 1000
             /\ timeout > 1000 => timeout - 1000 < left
             /\ BlockFor(timeout \div 1000) = timeout]_vars

\* A pop issued with half a second left to the deadline: its timeout is one
\* second.
C37_Witness ==
    \E c \in DOMAIN caller :
        /\ caller[c].pc = "brpop"
        /\ caller[c].deadline = 500
        /\ caller[c].elapsed = 1000
        /\ caller[c].block = 1000

\* Job a was enqueued before job b: randomUUID() is numbered in the order of
\* the handler calls that reached enqueueJob.
EnqueuedBefore(a, b) == a \in JobIds /\ b \in JobIds /\ a < b /\ b < nextId

\* Job id has been taken off the request list.
Dequeued(id) == handled[id] > 0

\* C38: requests are served first-in first-out. enqueueJob appends the
\* request to the tail of the request list and a worker's pop takes its
\* head, so the list holds the jobs in the order they were enqueued; with
\* one worker or several, a job is dequeued, and handleJob started for it,
\* only when every job enqueued before it has been dequeued; and with a
\* single worker handleJob for the earlier job has also ended by then.
C38_FirstInFirstOut ==
    /\ [](\A i, j \in DOMAIN requestQueue :
             i < j => EnqueuedBefore(requestQueue[i].id, requestQueue[j].id))
    /\ [][/\ \A c \in DOMAIN caller : caller[c].pc = "idle" /\ caller'[c].pc = "loop" =>
                /\ requestQueue' = Append(requestQueue, RequestText(caller'[c].jobId, caller'[c].payload))
                /\ \A a \in JobIds : Enqueued(a) => a < caller'[c].jobId /\ caller'[c].jobId < nextId'
          /\ \A w \in DOMAIN worker : worker[w].pc = "blpop" /\ worker'[w].pc = "status" =>
                /\ worker'[w].job = Head(requestQueue)
                /\ requestQueue' = Tail(requestQueue)
                /\ \A a \in JobIds : EnqueuedBefore(a, worker'[w].job.id) =>
                      /\ Dequeued(a)
                      /\ ~InQueue(a)
                      /\ Cardinality(DOMAIN worker) = 1 => ~Holding(w, a)]_vars

\* With both jobs on the request list, a worker has taken the first one and
\* started handleJob for it while the second is still waiting on the list.
C38_Witness ==
    \E w \in DOMAIN worker :
        /\ worker[w].pc = "status"
        /\ worker[w].job.id = 1
        /\ Len(requestQueue) = 1
        /\ requestQueue[1].id = 2
        /\ ~Dequeued(2)

\* The request body has a prompt that is a string and not blank once trimmed.
ValidPrompt(body) ==
    /\ body.json
    /\ body.prompt.kind = "string"
    /\ \E i \in DOMAIN body.prompt.text : body.prompt.text[i] # " "

\* C39: after any sequence of POST requests the prompt list has no prompt
\* twice and at most PROMPT_HISTORY_LIMIT entries; a POST with a valid
\* prompt is answered 200 and leaves that prompt, without the white space
\* around it, at the head of the list, the prompts that were there after it
\* in the order they had; a JSON body whose prompt is missing, no string or
\* blank is answered 422 and leaves the list as it was.
C39_PromptHistoryKept ==
    /\ [](PairwiseDistinct(prompts) /\ Len(prompts) <= PROMPT_HISTORY_LIMIT)
    /\ [][response' # response \/ prompts' # prompts =>
            LET body == response'.body IN
            /\ ValidPrompt(body) =>
                  /\ response'.status = 200
                  /\ prompts' # << >>
                  /\ Head(prompts') \in {SubSeq(body.prompt.text, i, j) : i, j \in DOMAIN body.prompt.text}
                  /\ Head(prompts')[1] # " " /\ Head(prompts')[Len(Head(prompts'))] # " "
                  /\ Range(prompts') \subseteq Range(prompts) \cup {Head(prompts')}
                  /\ \A k, l \in DOMAIN prompts' : 1 < k /\ k < l =>
                        \E i, j \in DOMAIN prompts : i < j /\ prompts[i] = prompts'[k] /\ prompts[j] = prompts'[l]
            /\ body.json /\ ~ValidPrompt(body) =>
                  /\ response'.status = 422
                  /\ prompts' = prompts]_vars

\* The list is full, and the last POST, of a prompt with white space around
\* it that was already on the list, has moved that prompt to the head.
C39_Witness ==
    /\ Len(prompts) = PROMPT_HISTORY_LIMIT
    /\ response.status = 200
    /\ response.body = Body(Text(<<" ", "a", " ">>))
    /\ Head(prompts) = <<"a">>
    /\ <<"g">> \in Range(prompts)

\* The jobIds of the stored searches, in their order.
StoredIds == [i \in DOMAIN state.searches |-> state.searches[i].jobId]

\* A jobId argument that is blank or names no stored search.
BlankOrUnknown(jobId) ==
    \/ jobId.kind # "string"
    \/ \A i \in DOMAIN jobId.text : jobId.text[i] = " "
    \/ trim(jobId.text) \notin Range(StoredIds)

\* C40: after any sequence of the dashboard actions the search history has
\* at most 6 entries, no two of them with the same jobId, the result stored
\* last is at its head, and activeJobId is unset or the jobId of an entry of
\* the history; and a focusStoredSearch call with a jobId that is blank or
\* not in the history leaves the page's state as it was.
C40_HistoryKept ==
    /\ [](/\ Len(state.searches) <= 6
          /\ PairwiseDistinct(StoredIds)
          /\ state.searches # << >> => Head(state.searches) = stored
          /\ stored # NoResult => state.searches # << >>
          /\ state.activeJobId = Undefined \/ state.activeJobId \in Range(StoredIds))
    /\ [][focused' # NoFocus /\ focused' # focused /\ BlankOrUnknown(focused'.jobId) =>
             /\ state' = state
             /\ copilotResult' = copilotResult
             /\ focused'.thrown]_vars

\* The history is full, a search that is not the latest is the active one,
\* and the last call, focusStoredSearch for a jobId that is not in the
\* history, threw and changed nothing.
C40_Witness ==
    /\ Len(state.searches) = 6
    /\ state.activeJobId = <<"a">>
    /\ Head(state.searches).jobId = randomUUID(0)
    /\ focused = [jobId |-> Text(<<"z">>), thrown |-> TRUE]

====
